---- MODULE Spec2Model ----
(***************************************************************************)
(* A model of the content-sync pipeline of aimcp: the GitLab client's      *)
(* request/retry loop and rule-file discovery, the repository cache keys,  *)
(* the TTL cache behind CacheManager with its background sweep task, the   *)
(* ToolManager and the conflict resolver, the resource URI scheme, and the *)
(* refresh_rules handler.                                                   *)
(*                                                                         *)
(* Each part has its own specification (SpecRequest, SpecKey, SpecCache,   *)
(* SpecLifecycle, SpecWarm, SpecTools, SpecClient, SpecUri, SpecResolver,  *)
(* SpecRefresh, SpecCalls); a part that a specification does not exercise  *)
(* stays in its initial state.                                             *)
(***************************************************************************)
EXTENDS Integers, Sequences, FiniteSets, TLC

\* ------------------------------------------------------------------ bounds
\* Largest configured max_retries explored (the default is 3).
MaxMaxRetries == 3
\* Longest repository_url, branch and file_path given to RepositoryCacheKey.
MaxSegmentLen == 2
\* Longest raw key string given to RepositoryCacheKey.from_key.
MaxKeyLen == 4
\* The clock of the cache runs from 0 to MaxTime.
MaxTime == 3
\* The ttl_seconds override passed to set_rule_file.
ShortTtl == 1
\* The cache's configured default TTL (CacheConfig.ttl_seconds, scaled down).
DefaultTtl == 2
\* Most cache writes in one run.
MaxWrites == 2
\* Most calls of CacheManager.start in one run.
MaxStarts == 2
\* Most calls of CacheManager.stop that return after one start.
MaxStops == 2
\* Most entries of a tree listing given to find_files_by_pattern.
MaxTreeLen == 2
\* Most patterns given to find_files_by_pattern.
MaxPatterns == 2
\* Longest repository, branch and file_path given to build_uri.
MaxComponentLen == 2
\* Most characters after the scheme in a string given to parse_uri.
MaxUriTailLen == 4
\* Most repositories in the mapping given to the resolver.
MaxResolverRepositories == 3
\* Most hits, and most misses, counted in a CacheStats.
MaxCount == 10

VARIABLES
    \* GitLabClient._make_request
    max_retries,    \* config.max_retries
    attempt,        \* the loop variable of `for attempt in range(max_retries + 1)`
    responses,      \* what client.request produced, one element per request issued
    waits,          \* the arguments of asyncio.sleep, in order
    outcome,        \* how the call ended, or [kind |-> "running"]
    \* RepositoryCacheKey
    key_fields,     \* the RepositoryCacheKey last formatted, or NoFields
    key,            \* the key string last formatted or parsed
    parsed,         \* what from_key(key) gave, or NotParsed
    \* CacheManager and the cache behind it
    now,            \* datetime.now()
    store,          \* the cache's entries: key -> CacheEntry
    written,        \* history: key -> the arguments and time of the last
                    \* set_rule_file of the key that no delete has followed
    writes,         \* history: the number of writes so far
    last,           \* the operation just performed, with its arguments and result
    \* The sweep task and CacheManager.start / stop
    tasks,          \* the tasks made by asyncio.create_task(self._cleanup_loop())
    cleanup_task,   \* self._cleanup_task: an index into tasks, or NoTask
    stop_pc,        \* where the call of stop() is
    closed,         \* whether cache.close() has been called
    stops,          \* history: the calls of stop() that returned since the last start()
    sweep_failed,   \* history: the tasks whose last sweep raised, until they sweep
                    \* again or are cancelled
    resumed,        \* history: the tasks that went round the loop after a failed sweep
    \* GitLabClient.find_files_by_pattern and fetch_rule_files,
    \* ResourceURIHandler and ToolResolver: calls that touch no shared state
    called,         \* the call made, with its arguments, what the upstream
                    \* answered and the result; or NotCalled
    \* Concurrent calls of ToolManager.get_resource_content
    calls,          \* each caller's position in the call, with its locals
    upstream,       \* history: the fetches the upstream answered, in order
    \* MCPServer.cleanup
    exit_path,      \* how the `try` block of run_server was left, or "none"
    cleanup_pc,     \* where the call of cleanup() is
    client_closed   \* whether gitlab_client.close() has been called

requestVars == <<max_retries, attempt, responses, waits, outcome>>
keyVars == <<key_fields, key, parsed>>
cacheVars == <<now, store, written, writes, last>>
lifecycleVars == <<tasks, cleanup_task, stop_pc, closed, stops, sweep_failed, resumed>>

clientVars == <<called>>
callVars == <<calls, upstream>>
serverVars == <<exit_path, cleanup_pc, client_closed>>

vars == <<requestVars, keyVars, cacheVars, lifecycleVars, clientVars, callVars,
          serverVars>>

otherThanRequest == <<keyVars, cacheVars, lifecycleVars, clientVars, callVars, serverVars>>
otherThanKey == <<requestVars, cacheVars, lifecycleVars, clientVars, callVars, serverVars>>
otherThanCache == <<requestVars, keyVars, lifecycleVars, clientVars, callVars, serverVars>>
otherThanLifecycle == <<requestVars, keyVars, cacheVars, clientVars, callVars, serverVars>>
otherThanClient == <<requestVars, keyVars, cacheVars, lifecycleVars, callVars, serverVars>>
otherThanCalls == <<requestVars, keyVars, lifecycleVars, clientVars, serverVars>>
otherThanServer == <<requestVars, keyVars, cacheVars, lifecycleVars, clientVars,
                     callVars>>

\* ------------------------------------------------- GitLabClient._make_request

\* GitLabClientError.status_code when no status is given (Python's None).
None == 0

\* What `await self.client.request(...)` can produce: a response with a status
\* code, or an httpx.RequestError (a transport failure).
RequestError == "RequestError"
StatusCodes == {200, 204, 400, 404, 429, 500}
Response(status) == [kind |-> "response", status |-> status]
TransportFailure == [kind |-> RequestError, status |-> None]

Running == [kind |-> "running", status |-> None, message |-> ""]
Returned(status) == [kind |-> "returned", status |-> status, message |-> ""]
\* raise GitLabClientError(message, status_code)
GitLabClientError(message, status) ==
    [kind |-> "raised", status |-> status, message |-> message]

RECURSIVE Pow2(_)
Pow2(n) == IF n = 0 THEN 1 ELSE 2 * Pow2(n - 1)

\* A linear backoff in place of the exponential one.
wait_time_linear(a) == a + 1

\* wait_time = 2 ** attempt
wait_time(a) == Pow2(a)

\* The retry bound taken one too small.
MayRetry_one_short(a) == a < max_retries - 1

\* A retry whatever the attempt number.
MayRetry_always(a) == TRUE

\* `if attempt < self.config.max_retries` (lines 96 and 118)
MayRetry(a) == a < max_retries

\* Server errors treated as retryable, like a rate limit.
IsRateLimited_or_5xx(status) == status = 429 \/ status >= 500

\* `if response.status_code == 429` (line 95)
IsRateLimited(status) == status = 429

\* `if response.status_code >= 400` (line 103)
IsHttpError(status) == status >= 400

\* One pass through the body of the for loop with the reply `r`; when the range
\* is used up the statement after the loop raises.
LoopBody(r) ==
    IF attempt > max_retries
    THEN /\ outcome' = GitLabClientError("Max retries exceeded", None)
         /\ UNCHANGED <<attempt, responses, waits>>
    ELSE /\ responses' = Append(responses, r)
         /\ IF r.kind = RequestError
            THEN IF MayRetry(attempt)
                 THEN /\ waits' = Append(waits, wait_time(attempt))
                      /\ attempt' = attempt + 1
                      /\ UNCHANGED outcome
                 ELSE /\ outcome' = GitLabClientError("Request failed", None)
                      /\ UNCHANGED <<attempt, waits>>
            ELSE IF IsRateLimited(r.status) /\ MayRetry(attempt)
                 THEN /\ waits' = Append(waits, wait_time(attempt))
                      /\ attempt' = attempt + 1
                      /\ UNCHANGED outcome
                 ELSE IF IsHttpError(r.status)
                      THEN /\ outcome' = GitLabClientError("HTTP", r.status)
                           /\ UNCHANGED <<attempt, waits>>
                      ELSE /\ outcome' = Returned(r.status)
                           /\ UNCHANGED <<attempt, waits>>

\* The server answers the pending request with a response.
RequestAnswered ==
    /\ outcome = Running
    /\ \E s \in StatusCodes : LoopBody(Response(s))
    /\ UNCHANGED <<max_retries, otherThanRequest>>

\* The pending request fails in transport (timeout, connection reset).
RequestFailed ==
    /\ outcome = Running
    /\ LoopBody(TransportFailure)
    /\ UNCHANGED <<max_retries, otherThanRequest>>

InitRequest(configured) ==
    /\ max_retries \in configured
    /\ attempt = 0
    /\ responses = <<>>
    /\ waits = <<>>
    /\ outcome = Running

NextRequest == RequestAnswered \/ RequestFailed

\* --------------------------------------------------------- RepositoryCacheKey

\* A str is a sequence of characters; ":" is the key separator, "a" stands for
\* every other character.
Chars == {"a", ":"}
Str(n) == UNION {[1 .. m -> Chars] : m \in 0 .. n}

\* RepositoryCacheKey(repository_url=..., branch=..., file_path=...)
RepositoryCacheKey(url, branch, path) ==
    [repository_url |-> url, branch |-> branch, file_path |-> path]

\* f"{self.repository_url}:{self.branch}:{self.file_path}"
to_key(k) == k.repository_url \o <<":">> \o k.branch \o <<":">> \o k.file_path

\* The index of the first occurrence of sep in s, or 0.
RECURSIVE Find(_, _, _)
Find(s, sep, i) ==
    IF i > Len(s) THEN 0
    ELSE IF s[i] = sep THEN i
    ELSE Find(s, sep, i + 1)

\* str.split(sep, maxsplit): the list of parts, cutting at the first maxsplit
\* occurrences of sep.
RECURSIVE Split(_, _, _)
Split(s, sep, maxsplit) ==
    LET i == Find(s, sep, 1) IN
    IF maxsplit = 0 \/ i = 0 THEN <<s>>
    ELSE <<SubSeq(s, 1, i - 1)>> \o Split(SubSeq(s, i + 1, Len(s)), sep, maxsplit - 1)

\* raise ValueError(f"Invalid cache key format: {key}")
ValueError == [ok |-> FALSE]
Parsed(k) == [ok |-> TRUE, value |-> k]

\* from_key with the split not limited to two cuts.
from_key_split_all(s) ==
    LET parts == Split(s, ":", Len(s)) IN
    IF Len(parts) # 3 THEN ValueError
    ELSE Parsed(RepositoryCacheKey(parts[1], parts[2], parts[3]))

\* RepositoryCacheKey.from_key
from_key(s) ==
    LET parts == Split(s, ":", 2) IN
    IF Len(parts) # 3 THEN ValueError
    ELSE Parsed(RepositoryCacheKey(parts[1], parts[2], parts[3]))

NoFields == [none |-> TRUE]
NotParsed == [none |-> TRUE]

\* k = RepositoryCacheKey(url, branch, path); key = k.to_key()
FormatKey ==
    /\ key_fields = NoFields /\ parsed = NotParsed
    /\ \E url \in Str(MaxSegmentLen), branch \in Str(MaxSegmentLen),
          path \in Str(MaxSegmentLen) :
          /\ key_fields' = RepositoryCacheKey(url, branch, path)
          /\ key' = to_key(key_fields')
    /\ parsed' = NotParsed
    /\ UNCHANGED otherThanKey

\* RepositoryCacheKey.from_key(key) on the key that was formatted.
ParseFormattedKey ==
    /\ key_fields # NoFields
    /\ parsed = NotParsed
    /\ parsed' = from_key(key)
    /\ UNCHANGED <<key_fields, key, otherThanKey>>

\* RepositoryCacheKey.from_key(s) on an arbitrary string.
ParseRawKey ==
    /\ key_fields = NoFields /\ parsed = NotParsed
    /\ \E s \in Str(MaxKeyLen) :
          /\ key' = s
          /\ parsed' = from_key(s)
    /\ key_fields' = NoFields
    /\ UNCHANGED otherThanKey

InitKey ==
    /\ key_fields = NoFields
    /\ key = <<>>
    /\ parsed = NotParsed

NextKey == FormatKey \/ ParseFormattedKey \/ ParseRawKey

\* ------------------------------------------------ CacheEntry and the cache

\* A value that may be absent (Python's `x | None`).
Nothing == [present |-> FALSE]
Some(v) == [present |-> TRUE, value |-> v]

\* CacheEntry(value, created_at, ttl_seconds)
CacheEntry(value, created_at, ttl_seconds) ==
    [value |-> value, created_at |-> created_at, ttl_seconds |-> ttl_seconds]

\* An entry that never expires once stored.
is_expired_never(e, t) == FALSE

\* CacheEntry.is_expired, at time t
is_expired(e, t) ==
    IF e.ttl_seconds = None THEN FALSE
    ELSE LET expiry_time == e.created_at + e.ttl_seconds IN t > expiry_time

\* cache.get(key): the value, or None when the key is absent or its entry expired.
cache_get(st, k, t) ==
    IF k \in DOMAIN st /\ ~is_expired(st[k], t) THEN Some(st[k].value) ELSE Nothing

\* A set that leaves the creation time of an entry already in the store.
cache_set_keeps_created_at(st, k, v, ttl, t) ==
    [x \in DOMAIN st \cup {k} |->
        IF x = k
        THEN CacheEntry(v, IF k \in DOMAIN st THEN st[k].created_at ELSE t,
                        IF ttl = None THEN DefaultTtl ELSE ttl)
        ELSE st[x]]

\* cache.set(key, value, ttl): ttl None takes the configured default.
cache_set(st, k, v, ttl, t) ==
    [x \in DOMAIN st \cup {k} |->
        IF x = k THEN CacheEntry(v, t, IF ttl = None THEN DefaultTtl ELSE ttl)
        ELSE st[x]]

\* cache.delete(key): what is left; the call returns whether the key was there.
cache_delete(st, k) == [x \in DOMAIN st \ {k} |-> st[x]]

\* Whether key k matches the pattern "<prefix>*".
Matches(pattern, k) ==
    LET prefix == SubSeq(pattern, 1, Len(pattern) - 1) IN
    /\ Len(k) >= Len(prefix)
    /\ SubSeq(k, 1, Len(prefix)) = prefix

\* cache.keys(pattern)
cache_keys(st, pattern) == {k \in DOMAIN st : Matches(pattern, k)}

\* cache.cleanup_expired(): what is left; the call returns the number removed.
cache_cleanup_expired(st, t) ==
    [x \in {k \in DOMAIN st : ~is_expired(st[k], t)} |-> st[x]]

\* --------------------------------------------------------------- CacheManager

\* GitLabRepository(url, branch)
GitLabRepository(url, branch) == [url |-> url, branch |-> branch]

\* The configured repositories: two branches of one project, and a repository
\* whose url holds the key separator.
Repositories ==
    {GitLabRepository(<<"a">>, <<"m">>),
     GitLabRepository(<<"a">>, <<"d">>),
     GitLabRepository(<<"a", ":", "m">>, <<"d">>)}

\* The rule files: <<repository, file path>>. The first repository has a file
\* whose path holds the key separator.
Files ==
    {<<GitLabRepository(<<"a">>, <<"m">>), <<"f">>>>,
     <<GitLabRepository(<<"a">>, <<"m">>), <<"d", ":", "f">>>>,
     <<GitLabRepository(<<"a">>, <<"d">>), <<"f">>>>,
     <<GitLabRepository(<<"a", ":", "m">>, <<"d">>), <<"f">>>>}

\* File contents.
Contents == {"x", "y"}

\* CacheManager._make_repository_key
make_repository_key(repository, file_path) ==
    to_key(RepositoryCacheKey(repository.url, repository.branch, file_path))

\* A pattern that leaves the branch out.
repository_pattern_url_only(repository) == repository.url \o <<":", "*">>

\* pattern = f"{repository.url}:{repository.branch}:*"
repository_pattern(repository) ==
    repository.url \o <<":">> \o repository.branch \o <<":", "*">>

\* The loop of invalidate_repository over the keys still to visit:
\* <<the cache afterwards, invalidated>>.
RECURSIVE invalidate_loop(_, _, _)
invalidate_loop(st, keys, invalidated) ==
    IF keys = {} THEN <<st, invalidated>>
    ELSE LET k == CHOOSE x \in keys : TRUE IN
         invalidate_loop(cache_delete(st, k), keys \ {k},
                         IF k \in DOMAIN st THEN invalidated + 1 ELSE invalidated)

\* CacheManager.invalidate_repository: <<the cache afterwards, invalidated>>
invalidate_repository(st, repository) ==
    invalidate_loop(st, cache_keys(st, repository_pattern(repository)), 0)

\* The loop of get_repository_rules over the keys still to visit: rule_files.
RECURSIVE rules_loop(_, _, _, _)
rules_loop(st, keys, t, rule_files) ==
    IF keys = {} THEN rule_files
    ELSE LET k == CHOOSE x \in keys : TRUE
             repo_key == from_key(k)
             content == cache_get(st, k, t)
         IN rules_loop(st, keys \ {k}, t,
                IF repo_key.ok /\ content.present /\ content.value # ""
                THEN (repo_key.value.file_path :> content.value) @@ rule_files
                ELSE rule_files)

\* CacheManager.get_repository_rules: file path -> content
get_repository_rules(st, repository, t) ==
    rules_loop(st, cache_keys(st, repository_pattern(repository)), t, <<>>)

\* No call of the cache manager is in progress or just returned.
Idle == [op |-> "idle"]

\* Time passes.
Tick ==
    /\ last = Idle
    /\ now < MaxTime
    /\ now' = now + 1
    /\ UNCHANGED <<store, written, writes, last, otherThanCache>>

\* The caller has taken the result of the call (warm_cache, which is made in
\* steps, ends in WarmCacheEnds; refresh_rules, made in steps too, has its
\* result after RefreshRulesEnds).
Return ==
    /\ last # Idle
    /\ last.op # "warm_cache"
    /\ last.op = "refresh_rules" => last.done
    /\ last' = Idle
    /\ UNCHANGED <<now, store, written, writes, otherThanCache>>

\* CacheManager.set_rule_file(repository, file_path, content, ttl_seconds)
SetRuleFile ==
    /\ last = Idle
    /\ writes < MaxWrites
    /\ \E file \in Files, content \in Contents, ttl \in {None, ShortTtl} :
          LET repository == file[1]
              file_path == file[2]
              k == make_repository_key(repository, file_path) IN
          /\ store' = cache_set(store, k, content, ttl, now)
          /\ written' = (k :> [value |-> content, at |-> now,
                               ttl |-> IF ttl = None THEN DefaultTtl ELSE ttl])
                           @@ written
          /\ last' = [op |-> "set_rule_file", repository |-> repository,
                      file_path |-> file_path, content |-> content,
                      before |-> store]
    /\ writes' = writes + 1
    /\ UNCHANGED <<now, otherThanCache>>

\* CacheManager.get_rule_file(repository, file_path)
GetRuleFile ==
    /\ last = Idle
    /\ \E file \in Files :
          last' = [op |-> "get_rule_file", repository |-> file[1],
                   file_path |-> file[2],
                   result |-> cache_get(store,
                                  make_repository_key(file[1], file[2]), now)]
    /\ UNCHANGED <<now, store, written, writes, otherThanCache>>

\* CacheManager.get_repository_rules(repository)
GetRepositoryRules ==
    /\ last = Idle
    /\ \E repository \in Repositories :
          last' = [op |-> "get_repository_rules", repository |-> repository,
                   result |-> get_repository_rules(store, repository, now)]
    /\ UNCHANGED <<now, store, written, writes, otherThanCache>>

\* CacheManager.invalidate_repository(repository)
InvalidateRepository ==
    /\ last = Idle
    /\ \E repository \in Repositories :
          LET r == invalidate_repository(store, repository) IN
          /\ store' = r[1]
          /\ written' = [k \in DOMAIN written \cap DOMAIN r[1] |-> written[k]]
          /\ last' = [op |-> "invalidate_repository", repository |-> repository,
                      result |-> r[2], before |-> store]
    /\ UNCHANGED <<now, writes, otherThanCache>>

\* A sweep: cache.cleanup_expired(), from the cleanup loop or from
\* CacheManager.cleanup_expired.
CleanupExpired ==
    /\ last = Idle
    /\ store' = cache_cleanup_expired(store, now)
    /\ last' = [op |-> "cleanup_expired",
                result |-> Cardinality(DOMAIN store \ DOMAIN store')]
    /\ UNCHANGED <<now, written, writes, otherThanCache>>

InitCache ==
    /\ now = 0
    /\ store = <<>>
    /\ written = <<>>
    /\ writes = 0
    /\ last = Idle

NextCache ==
    \/ Tick
    \/ SetRuleFile
    \/ GetRuleFile
    \/ GetRepositoryRules
    \/ InvalidateRepository
    \/ CleanupExpired
    \/ Return

\* ------------------------------------- the sweep task, start() and stop()

\* _cleanup_task: asyncio.Task[None] | None = None
NoTask == 0

\* A task: where its coroutine is suspended, and whether a cancellation has been
\* requested and not yet delivered.
\*   "new"       created, not yet run
\*   "sleep300"  in `await asyncio.sleep(300)`
\*   "cleanup"   in `await self.cache.cleanup_expired()`
\*   "sleep60"   in `await asyncio.sleep(60)` of the `except Exception` handler
\*   "done"      the coroutine returned
\*   "cancelled" CancelledError left the coroutine, or the task never ran
Task(pc, cancelling) == [pc |-> pc, cancelling |-> cancelling]
Finished(task) == task.pc \in {"done", "cancelled"}

\* Task.cancel(): no effect on a finished task.
cancel(task) == IF Finished(task) THEN task ELSE Task(task.pc, TRUE)

\* A loop whose `except asyncio.CancelledError` goes round again instead of
\* breaking.
cancelled_at_goes_round(pc) == IF pc \in {"sleep300", "cleanup"} THEN "sleep300" ELSE "cancelled"

\* Where CancelledError, thrown into _cleanup_loop at the await it is suspended
\* in, leaves the task: inside the try block `except asyncio.CancelledError:
\* break` ends the loop; inside the `except Exception` handler, and in a task
\* that never ran, nothing catches it.
cancelled_at(pc) == IF pc \in {"sleep300", "cleanup"} THEN "done" ELSE "cancelled"

\* What `await self._cleanup_task` raises in stop(), or "none".
await_task(task) == IF task.pc = "cancelled" THEN "CancelledError" ELSE "none"

\* stop() with no handler around the await.
stop_catches_nothing(exc) == FALSE

\* `except asyncio.CancelledError: pass` in stop()
stop_catches(exc) == exc = "CancelledError"

\* `if self._cleanup_task:` tested without looking at the task.
has_cleanup_task_always(task) == TRUE

\* `if self._cleanup_task:` in stop()
has_cleanup_task(task) == task # NoTask

\* Where `except Exception` leaves the loop with no `await asyncio.sleep(60)`
\* and no further iteration.
after_sweep_error_ends_loop == "done"

\* `except Exception as e: logger.error(...); await asyncio.sleep(60)`
after_sweep_error == "sleep60"

\* await cache_manager.start()
Start ==
    /\ stop_pc \in {"idle", "returned", "raised"}
    /\ Len(tasks) < MaxStarts
    /\ tasks' = Append(tasks, Task("new", FALSE))
    /\ cleanup_task' = Len(tasks')
    /\ stop_pc' = "idle"
    /\ stops' = 0
    /\ UNCHANGED <<closed, sweep_failed, resumed, otherThanLifecycle>>

\* The event loop runs new task i up to its first await.
TaskBeginsAt(i) ==
    /\ tasks[i].pc = "new" /\ ~tasks[i].cancelling
    /\ tasks' = [tasks EXCEPT ![i].pc = "sleep300"]
    /\ UNCHANGED <<cleanup_task, stop_pc, closed, stops, sweep_failed, resumed, otherThanLifecycle>>

TaskBegins == \E i \in 1 .. Len(tasks) : TaskBeginsAt(i)

\* asyncio.sleep(300) completes in task i.
SleepElapsesAt(i) ==
    /\ tasks[i].pc = "sleep300" /\ ~tasks[i].cancelling
    /\ tasks' = [tasks EXCEPT ![i].pc = "cleanup"]
    /\ sweep_failed' = sweep_failed \ {i}
    /\ UNCHANGED <<cleanup_task, stop_pc, closed, stops, resumed, otherThanLifecycle>>

SleepElapses == \E i \in 1 .. Len(tasks) : SleepElapsesAt(i)

\* cache.cleanup_expired() returns in task i; the loop goes round.
SweepSucceedsAt(i) ==
    /\ tasks[i].pc = "cleanup" /\ ~tasks[i].cancelling
    /\ tasks' = [tasks EXCEPT ![i].pc = "sleep300"]
    /\ UNCHANGED <<cleanup_task, stop_pc, closed, stops, sweep_failed, resumed, otherThanLifecycle>>

SweepSucceeds == \E i \in 1 .. Len(tasks) : SweepSucceedsAt(i)

\* cache.cleanup_expired() raises in task i; `except Exception` logs and
\* sleeps 60.
SweepRaisesAt(i) ==
    /\ tasks[i].pc = "cleanup" /\ ~tasks[i].cancelling
    /\ tasks' = [tasks EXCEPT ![i].pc = after_sweep_error]
    /\ sweep_failed' = sweep_failed \cup {i}
    /\ UNCHANGED <<cleanup_task, stop_pc, closed, stops, resumed, otherThanLifecycle>>

SweepRaises == \E i \in 1 .. Len(tasks) : SweepRaisesAt(i)

\* asyncio.sleep(60) completes in task i; the loop goes round.
BackoffElapsesAt(i) ==
    /\ tasks[i].pc = "sleep60" /\ ~tasks[i].cancelling
    /\ tasks' = [tasks EXCEPT ![i].pc = "sleep300"]
    /\ resumed' = resumed \cup {i}
    /\ UNCHANGED <<cleanup_task, stop_pc, closed, stops, sweep_failed, otherThanLifecycle>>

BackoffElapses == \E i \in 1 .. Len(tasks) : BackoffElapsesAt(i)

\* The event loop delivers a requested cancellation to task i.
CancelDeliveredAt(i) ==
    /\ tasks[i].cancelling
    /\ tasks' = [tasks EXCEPT ![i] = Task(cancelled_at(tasks[i].pc), FALSE)]
    /\ sweep_failed' = sweep_failed \ {i}
    /\ UNCHANGED <<cleanup_task, stop_pc, closed, stops, resumed, otherThanLifecycle>>

CancelDelivered == \E i \in 1 .. Len(tasks) : CancelDeliveredAt(i)

\* stop() is called: `if self._cleanup_task: self._cleanup_task.cancel()`.
\* None has no cancel(): calling it raises AttributeError out of stop().
StopBegins ==
    /\ stop_pc \in {"idle", "returned", "raised"}
    /\ stops < MaxStops
    /\ IF has_cleanup_task(cleanup_task)
       THEN IF cleanup_task = NoTask
            THEN /\ stop_pc' = "raised"
                 /\ UNCHANGED tasks
            ELSE /\ tasks' = [tasks EXCEPT ![cleanup_task] = cancel(tasks[cleanup_task])]
                 /\ stop_pc' = "awaiting"
       ELSE /\ stop_pc' = "closing"
            /\ UNCHANGED tasks
    /\ UNCHANGED <<cleanup_task, closed, stops, sweep_failed, resumed, otherThanLifecycle>>

\* `await self._cleanup_task` ends, the task having finished.
StopAwaitEnds ==
    /\ stop_pc = "awaiting"
    /\ Finished(tasks[cleanup_task])
    /\ LET exc == await_task(tasks[cleanup_task]) IN
       stop_pc' = IF exc = "none" \/ stop_catches(exc) THEN "closing" ELSE "raised"
    /\ UNCHANGED <<tasks, cleanup_task, closed, stops, sweep_failed, resumed, otherThanLifecycle>>

\* `await self.cache.close()`, and stop() returns.
StopCloses ==
    /\ stop_pc = "closing"
    /\ closed' = TRUE
    /\ stop_pc' = "returned"
    /\ stops' = stops + 1
    /\ UNCHANGED <<tasks, cleanup_task, sweep_failed, resumed, otherThanLifecycle>>

InitLifecycle ==
    /\ tasks = <<>>
    /\ cleanup_task = NoTask
    /\ stop_pc = "idle"
    /\ closed = FALSE
    /\ stops = 0
    /\ sweep_failed = {}
    /\ resumed = {}

NextLifecycle ==
    \/ Start
    \/ StopBegins
    \/ StopAwaitEnds
    \/ StopCloses
    \/ TaskBegins
    \/ SleepElapses
    \/ SweepSucceeds
    \/ SweepRaises
    \/ BackoffElapses
    \/ CancelDelivered

\* ------------------------------------------------- CacheManager.warm_cache

\* What fetch_function(repository) gives: the rule files, <<path, content>>
\* in the order of the dict, or an exception.
RuleFiles ==
    {<<>>,
     <<<<<<"f">>, "">>>>,
     <<<<<<"f">>, "y">>, <<<<"g">>, "x">>>>}
FetchOutcomes ==
    {[raised |-> TRUE]} \cup {[raised |-> FALSE, rule_files |-> f] : f \in RuleFiles}

\* Where the cache backend fails during one iteration of warm_cache: nowhere,
\* in cache.keys(pattern), or in the second cache.set.
StoreFaults == {"none", "keys", "set 2"}

\* The loop of cache_repository_rules: each file is set with the default TTL
\* until a cache.set raises.
RECURSIVE cache_repository_rules(_, _, _, _, _)
cache_repository_rules(st, repository, rule_files, fault, t) ==
    IF rule_files = <<>> THEN [store |-> st, raised |-> FALSE]
    ELSE IF fault = "set 1" THEN [store |-> st, raised |-> TRUE]
    ELSE cache_repository_rules(
             cache_set(st, make_repository_key(repository, Head(rule_files)[1]),
                       Head(rule_files)[2], None, t),
             repository, Tail(rule_files),
             IF fault = "set 2" THEN "set 1" ELSE fault, t)

\* `if cached_rules:` taken as false whatever is cached.
already_cached_never(cached_rules) == FALSE

\* `if cached_rules:` in warm_cache
already_cached(cached_rules) == DOMAIN cached_rules # {}

\* A `try` in warm_cache with no handler.
warm_catches_nothing(raised) == FALSE

\* `except Exception as e: ...; continue` in warm_cache
warm_catches(raised) == raised

\* One iteration of the loop of warm_cache, for repositories[i]: the cache
\* before and after, whether fetch_function was called and what it returned,
\* and whether the iteration raised.
warm_repository(st, i, repository, fetch, fault, t) ==
    LET step(fetched, rule_files, raised, after) ==
            [position |-> i, repository |-> repository, before |-> st,
             fetched |-> fetched, rule_files |-> rule_files, raised |-> raised,
             after |-> after]
    IN
    IF fault = "keys" THEN step(FALSE, Nothing, TRUE, st)
    ELSE IF already_cached(get_repository_rules(st, repository, t))
    THEN step(FALSE, Nothing, FALSE, st)
    ELSE IF fetch.raised THEN step(TRUE, Nothing, TRUE, st)
    ELSE LET cached == cache_repository_rules(st, repository, fetch.rule_files,
                                              fault, t)
         IN step(TRUE, Some(fetch.rule_files), cached.raised, cached.store)

\* The lists of repositories given to warm_cache: two repositories, the keys of
\* the second of which begin like keys of the first.
WarmLists ==
    LET warmed == {GitLabRepository(<<"a">>, <<"m">>),
                   GitLabRepository(<<"a", ":", "m">>, <<"d">>)}
    IN {<<r, s>> : r \in warmed, s \in warmed}

\* No iteration of warm_cache has been made yet. (`failed` in the record of
\* the call is history: the positions whose iteration raised.)
NoStep == [position |-> 0]

\* await cache_manager.warm_cache(repositories, fetch_function) is called.
WarmCacheBegins ==
    /\ last = Idle
    /\ writes < MaxWrites
    /\ \E repositories \in WarmLists :
          last' = [op |-> "warm_cache", repositories |-> repositories, i |-> 1,
                   written_before |-> written, step |-> NoStep, failed |-> {},
                   raised |-> FALSE]
    /\ UNCHANGED <<now, store, written, writes, otherThanCache>>

\* The next iteration of `for repository in repositories`, up to its
\* `continue` or to the exception that leaves warm_cache.
WarmCacheStep ==
    /\ last # Idle
    /\ last.op = "warm_cache"
    /\ last.i <= Len(last.repositories)
    /\ ~last.raised
    /\ \E fetch \in FetchOutcomes, fault \in StoreFaults :
          LET step == warm_repository(store, last.i, last.repositories[last.i],
                                      fetch, fault, now)
              set == {k \in DOMAIN step.after :
                         k \notin DOMAIN store \/ step.after[k] # store[k]}
          IN
          /\ set # {} => writes < MaxWrites
          /\ store' = step.after
          /\ written' = [k \in DOMAIN written \cup set |->
                            IF k \in set
                            THEN [value |-> step.after[k].value, at |-> now,
                                  ttl |-> step.after[k].ttl_seconds]
                            ELSE written[k]]
          /\ writes' = writes + (IF set = {} THEN 0 ELSE 1)
          /\ last' = [last EXCEPT !.i = last.i + 1, !.step = step,
                                  !.failed = IF step.raised THEN last.failed \cup {last.i}
                                             ELSE last.failed,
                                  !.raised = step.raised /\ ~warm_catches(step.raised)]
    /\ UNCHANGED <<now, otherThanCache>>

\* warm_cache returns, or the exception it did not catch reaches the caller.
WarmCacheEnds ==
    /\ last # Idle
    /\ last.op = "warm_cache"
    /\ last.i > Len(last.repositories) \/ last.raised
    /\ last' = Idle
    /\ UNCHANGED <<now, store, written, writes, otherThanCache>>

NextWarm ==
    \/ Tick
    \/ WarmCacheBegins
    \/ WarmCacheStep
    \/ WarmCacheEnds
    \/ InvalidateRepository
    \/ Return

\* --------------------------------------------------------------- ToolManager

aimcp_scheme == <<"a", "i", "m", "c", "p", ":", "/", "/">>
tools_json == <<"t", "o", "o", "l", "s", ".", "j", "s", "o", "n">>

\* config.gitlab.repositories
ConfiguredRepositories ==
    <<GitLabRepository(<<"a">>, <<"m">>), GitLabRepository(<<"b">>, <<"m">>)>>

\* MCPTool(name, resources) and ToolsSpecification(tools)
MCPTool(name, resources) == [name |-> name, resources |-> resources]
ToolsSpecification(tools) == [tools |-> tools]

\* The texts a tools.json may hold, and what
\* `spec_data = json.loads(content); spec = ToolsSpecification(**spec_data)`
\* makes of each: an exception, or the specification.
Manifests == {"{", "[]", "{}", "S1", "S2"}
parse_manifest(content) ==
    CASE content = "{" -> [raised |-> "JSONDecodeError"]
      [] content = "[]" -> [raised |-> "TypeError"]
      [] content = "S1" ->
            [raised |-> "none",
             spec |-> ToolsSpecification(<<MCPTool("t", <<<<"f">>>>)>>)]
      [] content = "S2" ->
            [raised |-> "none",
             spec |-> ToolsSpecification(
                          <<MCPTool("t", <<>>),
                            MCPTool("u", <<<<"f">>, <<"d", "/", "g">>>>)>>)]
      [] OTHER -> [raised |-> "ValidationError"]

\* What get_file_content_decoded gives: the content, or the GitLabClientError
\* that _make_request raised with its status_code (None: the transport failed).
Fetched(content) == [ok |-> TRUE, content |-> content]
FetchFailed(status_code) == [ok |-> FALSE, status_code |-> status_code]
FetchReplies(contents) ==
    {Fetched(c) : c \in contents} \cup {FetchFailed(s) : s \in {404, 500, None}}

\* How a call ends: with a value (Nothing is None), or with an exception.
Returns(v) == [raised |-> "none", value |-> v]
Raises(exc) == [raised |-> exc]

\* The status of a call and what it did: `store` is the cache afterwards,
\* `requests` the upstream requests sent, `reads` and `sets` the cache keys
\* read and written.
Did(result, st, requests, reads, sets) ==
    [result |-> result, store |-> st, requests |-> requests, reads |-> reads,
     sets |-> sets]

\* `if cached:` on a cached value
Truthy(cached) == cached.present /\ cached.value # ""

\* `e.status_code == 404` taken as false for every error.
is_not_found_never(status_code) == FALSE

\* `if e.status_code == 404:` in _load_repository_tools
is_not_found(status_code) == status_code = 404

\* cache_key = f"tools:{repository.url}:{repository.branch}"
tools_cache_key(repository) ==
    <<"t", "o", "o", "l", "s", ":">> \o repository.url \o <<":">>
        \o repository.branch

\* ToolManager._load_repository_tools(repository) at time t, the upstream
\* answering `reply` if it is asked.
load_repository_tools(st, repository, reply, t) ==
    LET cache_key == tools_cache_key(repository)
        cached_spec == cache_get(st, cache_key, t)
        request == [site |-> "tools", project |-> repository.url,
                    file_path |-> tools_json, ref |-> repository.branch]
    IN
    IF Truthy(cached_spec)
    THEN Did(Returns(Some(cached_spec.value)), st, <<>>, {cache_key}, {})
    ELSE IF reply.ok
    THEN LET parsed_spec == parse_manifest(reply.content) IN
         CASE parsed_spec.raised = "none" ->
                  Did(Returns(Some(reply.content)),
                      cache_set(st, cache_key, reply.content, DefaultTtl, t),
                      <<request>>, {cache_key}, {cache_key})
           [] parsed_spec.raised \in {"JSONDecodeError", "ValidationError"} ->
                  Did(Raises("ToolSpecificationError"), st, <<request>>,
                      {cache_key}, {})
           [] OTHER ->
                  Did(Raises(parsed_spec.raised), st, <<request>>, {cache_key}, {})
    ELSE IF is_not_found(reply.status_code)
    THEN Did(Returns(Nothing), st, <<request>>, {cache_key}, {})
    ELSE Did(Raises("ToolSpecificationError"), st, <<request>>, {cache_key}, {})

\* The resources of every tool of the specification held by a tools.json text.
Resources(content) ==
    LET tools == parse_manifest(content).spec.tools IN
    UNION {{tools[i].resources[j] : j \in 1 .. Len(tools[i].resources)} :
           i \in 1 .. Len(tools)}

\* _validate_resource_access letting through every path of a repository that
\* has a specification.
validate_resource_access_any_path(st, repository, file_path, reply, t) ==
    LET loaded == load_repository_tools(st, repository, reply, t) IN
    IF loaded.result.raised # "none" THEN loaded
    ELSE IF ~loaded.result.value.present
    THEN [loaded EXCEPT !.result = Raises("ToolSpecificationError")]
    ELSE [loaded EXCEPT !.result = Returns(Nothing)]

\* ToolManager._validate_resource_access(repository, file_path)
validate_resource_access(st, repository, file_path, reply, t) ==
    LET loaded == load_repository_tools(st, repository, reply, t) IN
    IF loaded.result.raised # "none" THEN loaded
    ELSE IF ~loaded.result.value.present
    THEN [loaded EXCEPT !.result = Raises("ToolSpecificationError")]
    ELSE IF file_path \in Resources(loaded.result.value.value)
    THEN [loaded EXCEPT !.result = Returns(Nothing)]
    ELSE [loaded EXCEPT !.result = Raises("ToolSpecificationError")]

\* The configuration search matching the url alone.
find_repo_config_by_url(repository, branch) ==
    {i \in DOMAIN ConfiguredRepositories :
        ConfiguredRepositories[i].url = repository}

\* `for repo in self.config.gitlab.repositories: if repo.url == repository and
\* repo.branch == branch`: the positions that match; the first is taken.
find_repo_config(repository, branch) ==
    {i \in DOMAIN ConfiguredRepositories :
        /\ ConfiguredRepositories[i].url = repository
        /\ ConfiguredRepositories[i].branch = branch}

\* s.startswith(prefix)
StartsWith(s, prefix) ==
    Len(s) >= Len(prefix) /\ SubSeq(s, 1, Len(prefix)) = prefix

\* The cache key of get_resource_content without the file path.
resource_cache_key_without_path(repository, branch, file_path) ==
    <<"r", "e", "s", "o", "u", "r", "c", "e", ":">> \o repository \o <<":">>
        \o branch \o <<":">>

\* cache_key = f"resource:{repository}:{branch}:{file_path}"
resource_cache_key(repository, branch, file_path) ==
    <<"r", "e", "s", "o", "u", "r", "c", "e", ":">> \o repository \o <<":">>
        \o branch \o <<":">> \o file_path

\* ToolManager.get_resource_content(resource_uri) at time t, the upstream
\* answering manifest_reply to a fetch of tools.json and content_reply to the
\* fetch of the resource.
get_resource_content(st, resource_uri, manifest_reply, content_reply, t) ==
    IF ~StartsWith(resource_uri, aimcp_scheme)
    THEN Did(Raises("ToolSpecificationError"), st, <<>>, {}, {})
    ELSE
    LET parts == Split(SubSeq(resource_uri, 9, Len(resource_uri)), "/", 2) IN
    IF Len(parts) < 3
    THEN Did(Raises("ToolSpecificationError"), st, <<>>, {}, {})
    ELSE
    LET repository == parts[1]
        branch == parts[2]
        file_path == parts[3]
        found == find_repo_config(repository, branch)
    IN
    IF found = {}
    THEN Did(Raises("ToolSpecificationError"), st, <<>>, {}, {})
    ELSE
    LET repo_config ==
            ConfiguredRepositories[CHOOSE i \in found : \A j \in found : i <= j]
        validated ==
            validate_resource_access(st, repo_config, file_path, manifest_reply, t)
        cache_key == resource_cache_key(repository, branch, file_path)
        cached_content == cache_get(validated.store, cache_key, t)
        request == [site |-> "resource", project |-> repository,
                    file_path |-> file_path, ref |-> branch]
    IN
    IF validated.result.raised # "none" THEN validated
    ELSE IF Truthy(cached_content)
    THEN Did(Returns(cached_content.value), validated.store, validated.requests,
             validated.reads \cup {cache_key}, validated.sets)
    ELSE IF content_reply.ok
    THEN Did(Returns(content_reply.content),
             cache_set(validated.store, cache_key, content_reply.content,
                       DefaultTtl, t),
             Append(validated.requests, request),
             validated.reads \cup {cache_key}, validated.sets \cup {cache_key})
    ELSE Did(Raises("ToolSpecificationError"), validated.store,
             Append(validated.requests, request),
             validated.reads \cup {cache_key}, validated.sets)

\* `repo_tools[repo] = spec` hashes the key: GitLabRepository is a pydantic
\* model that is not frozen, so it defines __eq__ and no __hash__.
hashable(repository) == FALSE

\* The loop of load_all_tools from position i on: `loaded` holds what
\* _load_repository_tools gave for each repository visited, `repo_tools` the
\* positions entered in the dict.
RECURSIVE load_all_loop(_, _, _, _, _)
load_all_loop(did, i, replies, t, acc) ==
    IF i > Len(ConfiguredRepositories)
    THEN [did EXCEPT !.result = acc]
    ELSE
    LET one == load_repository_tools(did.store, ConfiguredRepositories[i],
                                     replies[i], t)
        entered == /\ one.result.raised = "none"
                   /\ one.result.value.present
                   /\ hashable(ConfiguredRepositories[i])
    IN load_all_loop(
           Did(did.result, one.store, did.requests \o one.requests,
               did.reads \cup one.reads, did.sets \cup one.sets),
           i + 1, replies, t,
           [loaded |-> Append(acc.loaded, one.result),
            repo_tools |-> IF entered THEN Append(acc.repo_tools, i)
                           ELSE acc.repo_tools])

\* ToolManager.load_all_tools up to the call of the resolver: the result
\* holds `loaded` and `repo_tools`; with no repo_tools the call returns [].
load_all_tools(st, replies, t) ==
    load_all_loop(Did(Nothing, st, <<>>, {}, {}), 1, replies, t,
                  [loaded |-> <<>>, repo_tools |-> <<>>])

\* The resource URIs asked for: every triple of a repository, a branch and a
\* path, and two strings that are no resource URI.
ResourceUri(repository, branch, file_path) ==
    aimcp_scheme \o repository \o <<"/">> \o branch \o <<"/">> \o file_path
UriRepositories == {<<"a">>, <<"b">>, <<"c">>}
UriBranches == {<<"m">>, <<"d">>}
UriPaths == {<<"f">>, <<"d", "/", "g">>, <<"h">>, tools_json}
ResourceUris ==
    {ResourceUri(r, b, p) : r \in UriRepositories, b \in UriBranches, p \in UriPaths}
        \cup {<<"a", "/", "m", "/", "f">>, aimcp_scheme \o <<"a", "/", "m">>}

\* The calls below write to the cache through CacheManager.set, which leaves
\* `written` (the history of set_rule_file) alone.

\* await tool_manager.get_resource_content(resource_uri)
GetResourceContent ==
    /\ last = Idle
    /\ writes < MaxWrites
    /\ \E resource_uri \in ResourceUris,
          manifest_reply \in FetchReplies(Manifests),
          content_reply \in FetchReplies({"x", ""}) :
          LET did == get_resource_content(store, resource_uri, manifest_reply,
                                          content_reply, now) IN
          /\ store' = did.store
          /\ writes' = writes + Cardinality(did.sets)
          /\ last' = [op |-> "get_resource_content", resource_uri |-> resource_uri,
                      manifest_reply |-> manifest_reply, before |-> store,
                      did |-> did]
    /\ UNCHANGED <<now, written, otherThanCache>>

\* await self._load_repository_tools(repository)
LoadRepositoryTools ==
    /\ last = Idle
    /\ writes < MaxWrites
    /\ \E i \in DOMAIN ConfiguredRepositories, reply \in FetchReplies(Manifests) :
          LET did == load_repository_tools(store, ConfiguredRepositories[i],
                                           reply, now) IN
          /\ store' = did.store
          /\ writes' = writes + Cardinality(did.sets)
          /\ last' = [op |-> "load_repository_tools",
                      repository |-> ConfiguredRepositories[i], reply |-> reply,
                      before |-> store, did |-> did]
    /\ UNCHANGED <<now, written, otherThanCache>>

\* await tool_manager.load_all_tools()
LoadAllTools ==
    /\ last = Idle
    /\ writes < MaxWrites
    /\ \E replies \in [DOMAIN ConfiguredRepositories -> FetchReplies(Manifests)] :
          LET did == load_all_tools(store, replies, now) IN
          /\ store' = did.store
          /\ writes' = writes + Cardinality(did.sets)
          /\ last' = [op |-> "load_all_tools", replies |-> replies,
                      before |-> store, did |-> did]
    /\ UNCHANGED <<now, written, otherThanCache>>

NextTools ==
    \/ Tick
    \/ GetResourceContent
    \/ LoadRepositoryTools
    \/ LoadAllTools
    \/ Return

\* ------------------------- GitLabClient.find_files_by_pattern, fetch_rule_files

\* fnmatch.fnmatch(name, pat) on POSIX: `*` matches any run of characters, "/"
\* included, `?` any one character, every other character itself.
RECURSIVE fnmatch(_, _)
fnmatch(name, pat) ==
    IF pat = <<>> THEN name = <<>>
    ELSE IF Head(pat) = "*"
    THEN fnmatch(name, Tail(pat)) \/ (name # <<>> /\ fnmatch(Tail(name), pat))
    ELSE /\ name # <<>>
         /\ Head(pat) = "?" \/ Head(pat) = Head(name)
         /\ fnmatch(Tail(name), Tail(pat))

\* GitLabTree / GitLabFile: the path and the type of an entry.
GitLabTree(path, type) == [path |-> path, type |-> type]

\* The inner loop with no `break`.
RECURSIVE match_patterns_no_break(_, _)
match_patterns_no_break(entry, patterns) ==
    IF patterns = <<>> THEN <<>>
    ELSE (IF fnmatch(entry.path, Head(patterns)) THEN <<entry>> ELSE <<>>)
             \o match_patterns_no_break(entry, Tail(patterns))

\* `for pattern in patterns: if fnmatch.fnmatch(entry.path, pattern):
\* matching_files.append(file_info); break`: what is appended for the entry.
RECURSIVE match_patterns(_, _)
match_patterns(entry, patterns) ==
    IF patterns = <<>> THEN <<>>
    ELSE IF fnmatch(entry.path, Head(patterns)) THEN <<entry>>
    ELSE match_patterns(entry, Tail(patterns))

\* The loop of find_files_by_pattern over the tree entries: matching_files.
RECURSIVE find_files_by_pattern(_, _)
find_files_by_pattern(tree_entries, patterns) ==
    IF tree_entries = <<>> THEN <<>>
    ELSE (IF Head(tree_entries).type # "blob" THEN <<>>
          ELSE match_patterns(Head(tree_entries), patterns))
             \o find_files_by_pattern(Tail(tree_entries), patterns)

\* The inner `try` of fetch_rule_files with no handler.
fetch_catches_nothing(failed) == FALSE

\* `except Exception as e: ...; continue` around the fetch of one file
fetch_catches(failed) == failed

\* The loop of fetch_rule_files over the files from position j on, the
\* upstream answering replies[j] to the fetch of files[j]: the rule_files
\* returned, or the exception raised.
RECURSIVE fetch_files(_, _, _, _)
fetch_files(files, replies, j, rule_files) ==
    IF j > Len(files) THEN Returns(rule_files)
    ELSE IF replies[j].ok
    THEN fetch_files(files, replies, j + 1,
                     [p \in DOMAIN rule_files \cup {files[j].path} |->
                         IF p = files[j].path THEN replies[j].content
                         ELSE rule_files[p]])
    ELSE IF fetch_catches(TRUE)
    THEN fetch_files(files, replies, j + 1, rule_files)
    ELSE Raises("GitLabClientError")

\* GitLabClient.fetch_rule_files(repository): `tree` is what get_tree gives
\* find_files_by_pattern (Nothing: it raises). A repository with no
\* file_patterns attribute, as GitLabRepository is declared, raises
\* AttributeError in the first statement.
fetch_rule_files(repository, tree, replies) ==
    IF ~repository.file_patterns.present THEN Raises("AttributeError")
    ELSE IF ~tree.present THEN Raises("GitLabClientError")
    ELSE fetch_files(find_files_by_pattern(tree.value,
                                           repository.file_patterns.value),
                     replies, 1, <<>>)

\* Tree listings of up to MaxTreeLen entries and pattern lists of up to
\* MaxPatterns patterns.
TreeEntries ==
    {GitLabTree(p, t) : p \in {<<"a">>, <<"b">>, <<"a", "/", "b">>},
                        t \in {"blob", "tree"}}
Patterns == {<<"*">>, <<"a", "*">>, <<"?">>, <<"b">>}
Trees == UNION {[1 .. n -> TreeEntries] : n \in 0 .. MaxTreeLen}
PatternLists == UNION {[1 .. n -> Patterns] : n \in 0 .. MaxPatterns}

\* The repositories given to fetch_rule_files: one as GitLabRepository is
\* declared, and two that carry file_patterns.
FetchedRepositories ==
    {[url |-> <<"a">>, branch |-> <<"m">>, file_patterns |-> f] :
        f \in {Nothing, Some(<<<<"*">>>>), Some(<<<<"a", "*">>, <<"?">>>>)}}

\* No call of the client has been made.
NotCalled == [op |-> "none"]

\* await client.find_files_by_pattern(project_path, patterns, ref)
FindFilesByPattern ==
    /\ called = NotCalled
    /\ \E patterns \in PatternLists, tree \in {Nothing} \cup {Some(t) : t \in Trees} :
          called' = [op |-> "find_files_by_pattern", patterns |-> patterns,
                     tree |-> tree,
                     result |-> IF tree.present
                                THEN Returns(find_files_by_pattern(tree.value, patterns))
                                ELSE Raises("GitLabClientError")]
    /\ UNCHANGED otherThanClient

\* await client.fetch_rule_files(repository)
FetchRuleFiles ==
    /\ called = NotCalled
    /\ \E repository \in FetchedRepositories,
          tree \in {Nothing} \cup {Some(t) : t \in Trees},
          replies \in [1 .. MaxTreeLen ->
                          {Fetched("x"), Fetched("y"), FetchFailed(500)}] :
          called' = [op |-> "fetch_rule_files", repository |-> repository,
                     tree |-> tree, replies |-> replies,
                     result |-> fetch_rule_files(repository, tree, replies)]
    /\ UNCHANGED otherThanClient

InitClient == called = NotCalled

NextClient == FindFilesByPattern \/ FetchRuleFiles

\* -------------------------------------------------------- ResourceURIHandler

\* The characters of a URI: "/", "?" and "#" delimit the parts urlparse cuts,
\* "[" is the bracket of an IPv6 host, "a" stands for every other character.
UriChars == {"a", "/", "?", "#", "["}
\* The characters of the components given to build_uri ("?" stands for "#"
\* too: urlparse cuts the path at either).
ComponentChars == {"a", "/", "?"}
StrOver(chars, n) == UNION {[1 .. m -> chars] : m \in 0 .. n}

\* s.lstrip("/"), s.rstrip("/") and s.strip("/")
RECURSIVE lstrip(_)
lstrip(s) == IF s # <<>> /\ Head(s) = "/" THEN lstrip(Tail(s)) ELSE s
RECURSIVE rstrip(_)
rstrip(s) ==
    IF s # <<>> /\ s[Len(s)] = "/" THEN rstrip(SubSeq(s, 1, Len(s) - 1)) ELSE s
strip(s) == lstrip(rstrip(s))

\* The index of the first character of s that is in delims, or Len(s) + 1.
RECURSIVE FindAny(_, _, _)
FindAny(s, delims, i) ==
    IF i > Len(s) THEN Len(s) + 1
    ELSE IF s[i] \in delims THEN i
    ELSE FindAny(s, delims, i + 1)

\* urlparse(uri) for a uri that starts with "aimcp://": the netloc runs to the
\* first of "/", "?" and "#"; what follows is cut at the first "#" (fragment)
\* and then at the first "?" (query), and what remains is the path. A netloc
\* with "[" and no "]" raises ValueError("Invalid IPv6 URL").
urlparse(uri) ==
    LET url == SubSeq(uri, Len(aimcp_scheme) + 1, Len(uri))
        delim == FindAny(url, {"/", "?", "#"}, 1)
        netloc == SubSeq(url, 1, delim - 1)
        rest == SubSeq(url, delim, Len(url))
    IN
    IF \E i \in DOMAIN netloc : netloc[i] = "[" THEN Raises("ValueError")
    ELSE Returns([scheme |-> "aimcp", netloc |-> netloc,
                  path |-> SubSeq(rest, 1, FindAny(rest, {"?", "#"}, 1) - 1)])

\* `if not repository:` with the test left out.
missing_repository_never(repository) == FALSE

\* `if not repository:`
missing_repository(repository) == repository = <<>>

\* ResourceURIHandler.parse_uri(uri)
parse_uri(uri) ==
    IF ~StartsWith(uri, aimcp_scheme) THEN Raises("ResourceURIError")
    ELSE
    LET split == urlparse(uri) IN
    IF split.raised # "none" THEN Raises("ResourceURIError")
    ELSE IF split.value.scheme # "aimcp" THEN Raises("ResourceURIError")
    ELSE IF missing_repository(split.value.netloc) THEN Raises("ResourceURIError")
    ELSE
    LET path_parts == Split(lstrip(split.value.path), "/", 1) IN
    IF Len(path_parts) < 2 THEN Raises("ResourceURIError")
    ELSE IF path_parts[1] = <<>> THEN Raises("ResourceURIError")
    ELSE IF path_parts[2] = <<>> THEN Raises("ResourceURIError")
    ELSE Returns(<<split.value.netloc, path_parts[1], path_parts[2]>>)

\* ResourceURIHandler.build_uri(repository, branch, file_path)
build_uri(repository, branch, file_path) ==
    aimcp_scheme \o strip(repository) \o <<"/">> \o strip(branch) \o <<"/">>
        \o strip(file_path)

\* ResourceURIHandler.validate_uri(uri): False when parse_uri raises
\* ResourceURIError, and the exception itself when it raises another.
validate_uri(uri) ==
    LET r == parse_uri(uri) IN
    IF r.raised = "none" THEN Returns(TRUE)
    ELSE IF r.raised = "ResourceURIError" THEN Returns(FALSE)
    ELSE r

\* The strings given to parse_uri and validate_uri: "aimcp://" or "aimcp:/"
\* followed by up to MaxUriTailLen characters.
RawUris ==
    {prefix \o tail :
        prefix \in {aimcp_scheme, SubSeq(aimcp_scheme, 1, Len(aimcp_scheme) - 1)},
        tail \in StrOver(UriChars, MaxUriTailLen)}

\* uri = ResourceURIHandler.build_uri(repository, branch, file_path)
BuildUri ==
    /\ called = NotCalled
    /\ \E repository \in StrOver(ComponentChars, MaxComponentLen),
          branch \in StrOver(ComponentChars, MaxComponentLen),
          file_path \in StrOver(ComponentChars, MaxComponentLen) :
          called' = [op |-> "build_uri",
                     components |-> <<repository, branch, file_path>>,
                     result |-> build_uri(repository, branch, file_path)]
    /\ UNCHANGED otherThanClient

\* ResourceURIHandler.parse_uri(uri) on the uri that build_uri gave.
ParseBuiltUri ==
    /\ called.op = "build_uri"
    /\ called' = [op |-> "parse_uri", uri |-> called.result,
                  built_from |-> Some(called.components),
                  result |-> parse_uri(called.result)]
    /\ UNCHANGED otherThanClient

\* ResourceURIHandler.parse_uri(uri) on an arbitrary string.
ParseUri ==
    /\ called = NotCalled
    /\ \E uri \in RawUris :
          called' = [op |-> "parse_uri", uri |-> uri, built_from |-> Nothing,
                     result |-> parse_uri(uri)]
    /\ UNCHANGED otherThanClient

\* ResourceURIHandler.validate_uri(uri) on an arbitrary string.
ValidateUri ==
    /\ called = NotCalled
    /\ \E uri \in RawUris :
          called' = [op |-> "validate_uri", uri |-> uri,
                     result |-> validate_uri(uri)]
    /\ UNCHANGED otherThanClient

NextUri == BuildUri \/ ParseBuiltUri \/ ParseUri \/ ValidateUri

\* --------------------------------------------------------------- ToolResolver

\* ConflictResolutionStrategy
Strategies == {"prefix", "priority", "error", "merge"}

\* ResolvedTool(...) and ToolConflict(...)
ResolvedTool(original_name, resolved_name, repository, branch, specification, resource_uris) ==
    [original_name |-> original_name, resolved_name |-> resolved_name,
     repository |-> repository, branch |-> branch,
     specification |-> specification, resource_uris |-> resource_uris]
ToolConflict(name, repositories, strategy_applied, resolution) ==
    [name |-> name, repositories |-> repositories,
     strategy_applied |-> strategy_applied, resolution |-> resolution]

\* The elements of a set of numbers in ascending order.
RECURSIVE Ascending(_)
Ascending(S) ==
    IF S = {} THEN <<>>
    ELSE LET least == CHOOSE x \in S : \A y \in S : x <= y
         IN <<least>> \o Ascending(S \ {least})

\* The list without the later copies of an element.
RECURSIVE Dedup(_)
Dedup(s) ==
    IF s = <<>> THEN <<>>
    ELSE LET front == Dedup(SubSeq(s, 1, Len(s) - 1))
             x == s[Len(s)]
         IN IF \E k \in DOMAIN front : front[k] = x THEN front
            ELSE Append(front, x)

\* The input of a resolution pass is the mapping repository -> specification
\* in the caller's order: repo_tools[i] = [repository |-> .., spec |-> ..].
\* all_tools lists every tool with the position of its repository, in the
\* order of iteration.
RECURSIVE all_tools(_, _)
all_tools(repo_tools, i) ==
    IF i > Len(repo_tools) THEN <<>>
    ELSE [j \in 1 .. Len(repo_tools[i].spec.tools) |->
             [at |-> i, tool |-> repo_tools[i].spec.tools[j]]]
         \o all_tools(repo_tools, i + 1)

\* The positions of the repositories whose tool list has the name, in order.
owners(repo_tools, name) ==
    Ascending({i \in DOMAIN repo_tools :
                  \E j \in DOMAIN repo_tools[i].spec.tools :
                      repo_tools[i].spec.tools[j].name = name})

\* The names that more than one repository defines, in the order first seen.
colliding_names(repo_tools) ==
    LET all == all_tools(repo_tools, 1) IN
    Dedup([k \in DOMAIN SelectSeq(all,
                   LAMBDA e : Len(owners(repo_tools, e.tool.name)) > 1) |->
              SelectSeq(all, LAMBDA e : Len(owners(repo_tools, e.tool.name)) > 1)[k]
                  .tool.name])

\* The urls of the repositories at the positions.
urls(repo_tools, positions) ==
    [k \in DOMAIN positions |-> repo_tools[positions[k]].repository.url]

\* The resource URIs of a tool of a repository.
resource_uris(repository, tool) ==
    [k \in DOMAIN tool.resources |->
        build_uri(repository.url, repository.branch, tool.resources[k])]

\* The resource URIs of the tools of that name of all the repositories at the
\* positions, each resource once.
RECURSIVE merged_uris(_, _, _)
merged_uris(repo_tools, positions, name) ==
    IF positions = <<>> THEN <<>>
    ELSE LET r == repo_tools[Head(positions)]
             named == SelectSeq(r.spec.tools, LAMBDA t : t.name = name)
         IN Dedup(resource_uris(r.repository, named[1])
                    \o merged_uris(repo_tools, Tail(positions), name))

\* {repository-short-name}: the name that identifies the repository.
short_name(repository) == repository.url

\* The report of a strategy: one ToolConflict for each colliding name.
conflicts_of(repo_tools, strategy, resolution) ==
    LET names == colliding_names(repo_tools) IN
    [k \in DOMAIN names |->
        ToolConflict(names[k], urls(repo_tools, owners(repo_tools, names[k])),
                     strategy, resolution)]

\* The tool e of all_tools as a ResolvedTool of the given name.
resolved(repo_tools, e, resolved_name, uris) ==
    ResolvedTool(e.tool.name, resolved_name,
                 repo_tools[e.at].repository.url,
                 repo_tools[e.at].repository.branch, e.tool, uris)

\* `error` with the collisions not looked at.
is_conflict_never(names) == FALSE

\* `error`: a name in more than one repository's tool list is a conflict.
is_conflict(names) == names # <<>>

\* `error`: with no colliding name every tool keeps its name.
resolve_error(repo_tools) ==
    LET names == colliding_names(repo_tools)
        all == all_tools(repo_tools, 1)
    IN
    IF is_conflict(names)
    THEN [raised |-> "ConflictResolutionError", name |-> names[1],
          repositories |-> urls(repo_tools, owners(repo_tools, names[1]))]
    ELSE Returns(
             [tools |-> [k \in DOMAIN all |->
                            resolved(repo_tools, all[k], all[k].tool.name,
                                     resource_uris(repo_tools[all[k].at].repository,
                                                   all[k].tool))],
              conflicts |-> <<>>])

\* `prefix` with the prefix given to colliding names only.
resolved_name_prefixed_on_collision(repo_tools, e) ==
    IF Len(owners(repo_tools, e.tool.name)) > 1
    THEN short_name(repo_tools[e.at].repository) \o <<":">> \o e.tool.name
    ELSE e.tool.name

\* `prefix`: "{repository-short-name}:{original_name}"
resolved_name_prefixed(repo_tools, e) ==
    short_name(repo_tools[e.at].repository) \o <<":">> \o e.tool.name

resolve_prefix(repo_tools) ==
    LET all == all_tools(repo_tools, 1) IN
    Returns(
        [tools |-> [k \in DOMAIN all |->
                       resolved(repo_tools, all[k],
                                resolved_name_prefixed(repo_tools, all[k]),
                                resource_uris(repo_tools[all[k].at].repository,
                                              all[k].tool))],
         conflicts |-> conflicts_of(repo_tools, "prefix", "prefixed")])

\* `priority` and `merge` with no tool excluded.
wins_always(repo_tools, e) == TRUE

\* `priority` and `merge` with the last repository winning a name.
wins_last(repo_tools, e) ==
    LET o == owners(repo_tools, e.tool.name) IN e.at = o[Len(o)]

\* `priority` and `merge`: the first repository to claim a name wins.
wins(repo_tools, e) == e.at = owners(repo_tools, e.tool.name)[1]

resolve_priority(repo_tools) ==
    LET kept == SelectSeq(all_tools(repo_tools, 1),
                          LAMBDA e : wins(repo_tools, e)) IN
    Returns(
        [tools |-> [k \in DOMAIN kept |->
                       resolved(repo_tools, kept[k], kept[k].tool.name,
                                resource_uris(repo_tools[kept[k].at].repository,
                                              kept[k].tool))],
         conflicts |-> conflicts_of(repo_tools, "priority", "first kept")])

\* `merge` with the resources of the first-seen tool only.
merge_resources_first_only(repo_tools, positions, name) ==
    merged_uris(repo_tools, <<positions[1]>>, name)

\* `merge`: the union of the resource lists of the colliding tools.
merge_resources(repo_tools, positions, name) ==
    merged_uris(repo_tools, positions, name)

resolve_merge(repo_tools) ==
    LET kept == SelectSeq(all_tools(repo_tools, 1),
                          LAMBDA e : wins(repo_tools, e)) IN
    Returns(
        [tools |-> [k \in DOMAIN kept |->
                       resolved(repo_tools, kept[k], kept[k].tool.name,
                                merge_resources(repo_tools,
                                    owners(repo_tools, kept[k].tool.name),
                                    kept[k].tool.name))],
         conflicts |-> conflicts_of(repo_tools, "merge", "merged")])

\* ToolResolver(strategy).resolve_tools(repo_tools)
resolve_tools(strategy, repo_tools) ==
    CASE strategy = "error" -> resolve_error(repo_tools)
      [] strategy = "prefix" -> resolve_prefix(repo_tools)
      [] strategy = "priority" -> resolve_priority(repo_tools)
      [] strategy = "merge" -> resolve_merge(repo_tools)

\* The inputs of a pass: up to MaxResolverRepositories repositories of
\* different urls, each with one of the tool lists (the names of one list
\* differ).
RepositoryUrls == <<<<"a">>, <<"b">>, <<"c">>, <<"d">>>>
ToolLists ==
    {<<>>,
     <<MCPTool(<<"build">>, <<<<"f">>>>)>>,
     <<MCPTool(<<"build">>, <<<<"f">>, <<"g">>>>), MCPTool(<<"test">>, <<>>)>>,
     <<MCPTool(<<"test">>, <<<<"g">>>>), MCPTool(<<"lint">>, <<<<"f">>>>)>>}
RepoTools ==
    UNION {{[i \in 1 .. n |->
                [repository |-> GitLabRepository(RepositoryUrls[i], <<"m">>),
                 spec |-> ToolsSpecification(lists[i])]] :
               lists \in [1 .. n -> ToolLists]} :
           n \in 0 .. MaxResolverRepositories}

\* resolved_tools, conflicts = resolver.resolve_tools(repo_tools)
ResolveTools ==
    /\ called = NotCalled
    /\ \E strategy \in Strategies, repo_tools \in RepoTools :
          called' = [op |-> "resolve_tools", strategy |-> strategy,
                     repo_tools |-> repo_tools,
                     result |-> resolve_tools(strategy, repo_tools)]
    /\ UNCHANGED otherThanClient

NextResolver == ResolveTools

\* ------------------------------------------------- MCPHandlers.refresh_rules

\* config.gitlab.repositories as the handlers see it. The first repository is
\* as GitLabRepository is declared; the second carries the file_patterns that
\* fetch_rule_files reads, and its keys begin like keys of the first.
HandlerRepositories ==
    <<[url |-> <<"a">>, branch |-> <<"m">>, file_patterns |-> Nothing],
      [url |-> <<"a", ":", "m">>, branch |-> <<"d">>,
       file_patterns |-> Some(<<<<"*">>>>)]>>

\* The `repository` argument of refresh_rules: None, "", or a url.
RefreshArguments ==
    {Nothing, Some(<<>>), Some(<<"a">>), Some(<<"a", ":", "m">>), Some(<<"c">>)}

\* RefreshResult(success, repository, updated_files, cached_files, errors)
RefreshResult(success, repository, updated_files, cached_files, errors) ==
    [success |-> success, repository |-> repository,
     updated_files |-> updated_files, cached_files |-> cached_files,
     errors |-> errors]

\* `if repository:` and the list comprehension over config.gitlab.repositories
named(repository) == repository.present /\ repository.value # <<>>
selected(repository) ==
    IF named(repository)
    THEN SelectSeq(HandlerRepositories, LAMBDA repo : repo.url = repository.value)
    ELSE HandlerRepositories

\* A `try` in the loop of refresh_rules with no handler.
refresh_catches_nothing(raised) == FALSE

\* `except Exception as e: errors.append(...)` in refresh_rules
refresh_catches(raised) == raised

\* One iteration of the loop of refresh_rules, for repositories[i]: the cache
\* before and after, whether fetch_rule_files was called, the number of files
\* it returned, and whether the iteration raised. `fetch` is what the upstream
\* makes fetch_rule_files give a repository that has file_patterns.
refresh_repository(st, i, repo, fetch, fault, t) ==
    LET step(fetched, count, raised, after) ==
            [position |-> i, repository |-> repo, before |-> st,
             fetched |-> fetched, count |-> count, raised |-> raised,
             after |-> after]
        invalidated == invalidate_repository(st, repo)[1]
    IN
    IF fault = "keys" THEN step(FALSE, 0, TRUE, st)
    ELSE IF fetch_rule_files(repo, Nothing, <<>>) = Raises("AttributeError")
    THEN step(TRUE, 0, TRUE, invalidated)
    ELSE IF fetch.raised THEN step(TRUE, 0, TRUE, invalidated)
    ELSE LET cached == cache_repository_rules(invalidated, repo, fetch.rule_files,
                                              fault, t)
         IN step(TRUE, IF cached.raised THEN 0 ELSE Len(fetch.rule_files),
                 cached.raised, cached.store)

\* errors.append(f"Failed to refresh {repo.url}: {str(e)}") and
\* errors=[f"Repository {repository} not found in configuration"]
RefreshError(url, message) == [repository |-> url, message |-> message]

\* await handlers.refresh_rules(repository) is called: the repositories are
\* selected, and a name that selects none returns at once.
RefreshRulesBegins ==
    /\ last = Idle
    /\ \E repository \in RefreshArguments :
          LET repositories == selected(repository)
              not_found == named(repository) /\ repositories = <<>>
          IN
          last' = [op |-> "refresh_rules", repository |-> repository,
                   repositories |-> repositories, i |-> 1, before |-> store,
                   step |-> NoStep, errors |-> <<>>, total_updated |-> 0,
                   failed |-> {}, fetches |-> 0, raised |-> FALSE,
                   done |-> not_found,
                   result |-> IF not_found
                              THEN Returns(RefreshResult(FALSE, repository, 0, 0,
                                       <<RefreshError(repository.value, "not found")>>))
                              ELSE Nothing]
    /\ UNCHANGED <<now, store, written, writes, otherThanCache>>

\* The next iteration of `for repo in repositories`. (`failed` and `fetches`
\* in the record of the call are history: the positions whose iteration
\* raised, and the calls of fetch_rule_files.)
RefreshRulesStep ==
    /\ last # Idle
    /\ last.op = "refresh_rules"
    /\ ~last.done
    /\ ~last.raised
    /\ last.i <= Len(last.repositories)
    /\ \E fetch \in FetchOutcomes, fault \in StoreFaults :
          LET repo == last.repositories[last.i]
              step == refresh_repository(store, last.i, repo, fetch, fault, now)
              set == {k \in DOMAIN step.after :
                         k \notin DOMAIN store \/ step.after[k] # store[k]}
          IN
          /\ set # {} => writes < MaxWrites
          /\ store' = step.after
          /\ written' = [k \in (DOMAIN written \cap DOMAIN step.after) \cup set |->
                            IF k \in set
                            THEN [value |-> step.after[k].value, at |-> now,
                                  ttl |-> step.after[k].ttl_seconds]
                            ELSE written[k]]
          /\ writes' = writes + (IF set = {} THEN 0 ELSE 1)
          /\ last' = [last EXCEPT
                         !.i = last.i + 1,
                         !.step = step,
                         !.errors = IF refresh_catches(step.raised)
                                    THEN Append(last.errors,
                                                RefreshError(repo.url, "failed"))
                                    ELSE last.errors,
                         !.total_updated = last.total_updated + step.count,
                         !.failed = IF step.raised THEN last.failed \cup {last.i}
                                    ELSE last.failed,
                         !.fetches = last.fetches + (IF step.fetched THEN 1 ELSE 0),
                         !.raised = step.raised /\ ~refresh_catches(step.raised)]
    /\ UNCHANGED <<now, otherThanCache>>

\* refresh_rules returns its RefreshResult, or the exception it did not catch
\* reaches the caller.
RefreshRulesEnds ==
    /\ last # Idle
    /\ last.op = "refresh_rules"
    /\ ~last.done
    /\ last.i > Len(last.repositories) \/ last.raised
    /\ last' = [last EXCEPT
                   !.done = TRUE,
                   !.result = IF last.raised THEN Raises("Exception")
                              ELSE Returns(RefreshResult(
                                       Len(last.errors) = 0, last.repository,
                                       last.total_updated, last.total_updated,
                                       last.errors))]
    /\ UNCHANGED <<now, store, written, writes, otherThanCache>>

NextRefresh ==
    \/ SetRuleFile
    \/ RefreshRulesBegins
    \/ RefreshRulesStep
    \/ RefreshRulesEnds
    \/ Return

\* ------------------------------- concurrent calls of get_resource_content

\* The callers: two tasks of the event loop, each in
\* `await tool_manager.get_resource_content(resource_uri)` for the same URI.
Callers == {1, 2}
SharedUri == ResourceUri(<<"a">>, <<"m">>, <<"f">>)

\* What the upstream serves: a tools.json that lists the file, and for the
\* file a content that may differ from one fetch to the next.
ServedManifest == "S1"
ServedContents == {"", "x", "y"}

\* A call that has not begun, and a call at pc with its locals.
NotBegun == [pc |-> "not begun"]
Call(pc, repository, branch, file_path, content, result) ==
    [pc |-> pc, repository |-> repository, branch |-> branch,
     file_path |-> file_path, content |-> content, result |-> result]

\* The call begins: the URI is parsed, the repository found in the
\* configuration, and the call reaches `await self.cache_manager.get(cache_key)`
\* of _load_repository_tools.
CallBegins(c) ==
    /\ calls[c] = NotBegun
    /\ LET parts == Split(SubSeq(SharedUri, 9, Len(SharedUri)), "/", 2) IN
       calls' = [calls EXCEPT ![c] =
                    IF /\ StartsWith(SharedUri, aimcp_scheme)
                       /\ Len(parts) = 3
                       /\ find_repo_config(parts[1], parts[2]) # {}
                    THEN Call("tools get", parts[1], parts[2], parts[3], Nothing,
                              Nothing)
                    ELSE Call("done", <<>>, <<>>, <<>>, Nothing,
                              Raises("ToolSpecificationError"))]
    /\ UNCHANGED <<upstream, cacheVars, otherThanCalls>>

\* `if file_path in tool.resources` for some tool of the specification, on
\* the way out of _validate_resource_access.
Validated(call, manifest) ==
    IF call.file_path \in Resources(manifest)
    THEN [call EXCEPT !.pc = "get"]
    ELSE [call EXCEPT !.pc = "done", !.result = Raises("ToolSpecificationError")]

\* cached_spec = await self.cache_manager.get(cache_key), in
\* _load_repository_tools
ToolsGet(c) ==
    /\ calls[c].pc = "tools get"
    /\ LET cached_spec ==
               cache_get(store,
                         tools_cache_key(GitLabRepository(calls[c].repository,
                                                          calls[c].branch)), now)
       IN calls' = [calls EXCEPT ![c] =
                       IF Truthy(cached_spec)
                       THEN Validated(calls[c], cached_spec.value)
                       ELSE [calls[c] EXCEPT !.pc = "tools fetch"]]
    /\ UNCHANGED <<upstream, cacheVars, otherThanCalls>>

\* content = await self.gitlab_client.get_file_content_decoded(repository.url,
\* "tools.json", repository.branch)
ToolsFetch(c) ==
    /\ calls[c].pc = "tools fetch"
    /\ calls' = [calls EXCEPT ![c].pc = "tools set"]
    /\ upstream' = Append(upstream, [call |-> c, site |-> "tools",
                                     content |-> ServedManifest])
    /\ UNCHANGED <<cacheVars, otherThanCalls>>

\* await self.cache_manager.set(cache_key, spec.model_dump(), ttl=...)
ToolsSet(c) ==
    /\ calls[c].pc = "tools set"
    /\ store' = cache_set(store,
                          tools_cache_key(GitLabRepository(calls[c].repository,
                                                           calls[c].branch)),
                          ServedManifest, DefaultTtl, now)
    /\ calls' = [calls EXCEPT ![c] = Validated(calls[c], ServedManifest)]
    /\ UNCHANGED <<upstream, now, written, writes, last, otherThanCalls>>

\* cached_content = await self.cache_manager.get(cache_key), in
\* get_resource_content
ContentGet(c) ==
    /\ calls[c].pc = "get"
    /\ LET cached_content ==
               cache_get(store,
                         resource_cache_key(calls[c].repository, calls[c].branch,
                                            calls[c].file_path), now)
       IN calls' = [calls EXCEPT ![c] =
                       IF Truthy(cached_content)
                       THEN [calls[c] EXCEPT !.pc = "done",
                                             !.result = Returns(cached_content.value)]
                       ELSE [calls[c] EXCEPT !.pc = "fetch"]]
    /\ UNCHANGED <<upstream, cacheVars, otherThanCalls>>

\* content = await self.gitlab_client.get_file_content_decoded(repository,
\* file_path, branch)
ContentFetch(c) ==
    /\ calls[c].pc = "fetch"
    /\ \E content \in ServedContents :
          /\ calls' = [calls EXCEPT ![c].pc = "set", ![c].content = Some(content)]
          /\ upstream' = Append(upstream, [call |-> c, site |-> "resource",
                                           content |-> content])
    /\ UNCHANGED <<cacheVars, otherThanCalls>>

\* await self.cache_manager.set(cache_key, content, ttl=...); return content
ContentSet(c) ==
    /\ calls[c].pc = "set"
    /\ store' = cache_set(store,
                          resource_cache_key(calls[c].repository, calls[c].branch,
                                             calls[c].file_path),
                          calls[c].content.value, DefaultTtl, now)
    /\ calls' = [calls EXCEPT ![c].pc = "done",
                              ![c].result = Returns(calls[c].content.value)]
    /\ UNCHANGED <<upstream, now, written, writes, last, otherThanCalls>>

InitCalls ==
    /\ calls = [c \in Callers |-> NotBegun]
    /\ upstream = <<>>

NextCalls ==
    \E c \in Callers :
        \/ CallBegins(c)
        \/ ToolsGet(c)
        \/ ToolsFetch(c)
        \/ ToolsSet(c)
        \/ ContentGet(c)
        \/ ContentFetch(c)
        \/ ContentSet(c)

\* ------------------------------------------------------- MCPServer.cleanup

\* `await self.cache.close()` in stop() raises (the backend fails to close,
\* or the caller of stop() is cancelled while it waits there): stop() ends by
\* raising, the cache not closed.
StopCloseRaises ==
    /\ stop_pc = "closing"
    /\ stop_pc' = "raised"
    /\ UNCHANGED <<tasks, cleanup_task, closed, stops, sweep_failed, resumed, otherThanLifecycle>>

\* get_server_runner(): `await self.cache_manager.start()`, once, before any
\* cleanup.
GetServerRunner ==
    /\ cleanup_pc = "idle"
    /\ tasks = <<>>
    /\ Start

\* How control leaves the `try` block of run_server: get_server_runner() or
\* the runner returns, or raises KeyboardInterrupt, an Exception (that
\* becomes typer.Exit) or the CancelledError of a cancelled run.
ExitPaths == {"return", "KeyboardInterrupt", "Exception", "CancelledError"}

\* cleanup() is called, from __aexit__ or from the `finally` of run_server,
\* and reaches `await self.cache_manager.stop()`.
CleanupBegins ==
    /\ cleanup_pc = "idle"
    /\ stop_pc = "idle"
    /\ exit_path' \in ExitPaths
    /\ cleanup_pc' = "stop"
    /\ UNCHANGED <<client_closed, otherThanServer>>

\* The call of stop() that cleanup() makes.
CleanupCallsStop ==
    /\ cleanup_pc = "stop"
    /\ stop_pc = "idle"
    /\ StopBegins

\* stop() raised inside cleanup(): nothing in cleanup() catches, and no
\* `finally` holds the statements after it.
after_stop_raises == "raised"

\* `await self.cache_manager.stop()` ends in cleanup().
CleanupStopEnds ==
    /\ cleanup_pc = "stop"
    /\ stop_pc \in {"returned", "raised"}
    /\ cleanup_pc' = IF stop_pc = "returned" THEN "client" ELSE after_stop_raises
    /\ UNCHANGED <<exit_path, client_closed, otherThanServer>>

\* `await self.gitlab_client.close()`, and cleanup() returns.
CleanupClosesClient ==
    /\ cleanup_pc = "client"
    /\ client_closed' = TRUE
    /\ cleanup_pc' = "returned"
    /\ UNCHANGED <<exit_path, otherThanServer>>

InitServer ==
    /\ exit_path = "none"
    /\ cleanup_pc = "idle"
    /\ client_closed = FALSE

NextServer ==
    \/ GetServerRunner
    \/ CleanupBegins
    \/ CleanupCallsStop
    \/ StopAwaitEnds
    \/ StopCloses
    \/ StopCloseRaises
    \/ CleanupStopEnds
    \/ CleanupClosesClient
    \/ TaskBegins
    \/ SleepElapses
    \/ SweepSucceeds
    \/ SweepRaises
    \/ BackoffElapses
    \/ CancelDelivered

\* ----------------------------------------------------------------- CacheStats

\* CacheStats(hit_count=..., miss_count=...); the other fields play no part
\* in hit_rate.
CacheStats(hit_count, miss_count) == [hit_count |-> hit_count, miss_count |-> miss_count]

RECURSIVE gcd(_, _)
gcd(a, b) == IF b = 0 THEN a ELSE gcd(b, a % b)

\* The quotient n / d of two integers, d > 0, n >= 0, as a fraction in lowest
\* terms (the float that `/` gives is the nearest to it).
Quotient(n, d) == [num |-> n \div gcd(n, d), den |-> d \div gcd(n, d)]

\* 0.0
Zero == [num |-> 0, den |-> 1]

\* total_requests taken to be the hits alone.
total_requests_hits_only(stats) == stats.hit_count

\* total_requests = self.hit_count + self.miss_count
total_requests(stats) == stats.hit_count + stats.miss_count

\* CacheStats.hit_rate
hit_rate(stats) ==
    IF total_requests(stats) = 0
    THEN Zero
    ELSE Quotient(stats.hit_count, total_requests(stats))

\* stats.hit_rate read on every bounded CacheStats.
HitRate ==
    /\ called = NotCalled
    /\ \E hit_count \in 0 .. MaxCount, miss_count \in 0 .. MaxCount :
          called' = [op |-> "hit_rate", hit_count |-> hit_count,
                     miss_count |-> miss_count,
                     result |-> hit_rate(CacheStats(hit_count, miss_count))]
    /\ UNCHANGED otherThanClient

NextStats == HitRate

\* ------------------- get_resource_content after invalidate_repository

\* await tool_manager.get_resource_content(resource_uri) for a resource of
\* `repository`, called right after cache_manager.invalidate_repository(
\* repository) has returned. (`invalidated` and `held` in the record of the
\* call are history: the repository just invalidated and the cache before that
\* invalidation.)
GetResourceContentAfterInvalidation ==
    /\ last # Idle
    /\ last.op = "invalidate_repository"
    /\ writes <= MaxWrites
    /\ \E resource_uri \in {ResourceUri(last.repository.url, last.repository.branch, p) :
                              p \in UriPaths},
          manifest_reply \in FetchReplies(Manifests),
          content_reply \in FetchReplies({"x", ""}) :
          LET did == get_resource_content(store, resource_uri, manifest_reply,
                                          content_reply, now) IN
          /\ store' = did.store
          /\ writes' = writes + Cardinality(did.sets)
          /\ last' = [op |-> "get_resource_content", resource_uri |-> resource_uri,
                      manifest_reply |-> manifest_reply, before |-> store,
                      did |-> did, invalidated |-> last.repository,
                      held |-> last.before]
    /\ UNCHANGED <<now, written, otherThanCache>>

NextInvalidate ==
    \/ Tick
    \/ GetResourceContent
    \/ InvalidateRepository
    \/ GetResourceContentAfterInvalidation
    \/ Return

\* ------------------------- the URI decoding inside get_resource_content

\* The first statements of ToolManager.get_resource_content: the scheme test,
\* `resource_uri[8:].split("/", 2)` and `if len(parts) < 3`. A string that
\* passes is unpacked into repository, branch and file_path as it is cut.
decode_resource_uri(resource_uri) ==
    IF ~StartsWith(resource_uri, aimcp_scheme)
    THEN Raises("ToolSpecificationError")
    ELSE LET parts == Split(SubSeq(resource_uri, 9, Len(resource_uri)), "/", 2) IN
         IF Len(parts) < 3
         THEN Raises("ToolSpecificationError")
         ELSE Returns(<<parts[1], parts[2], parts[3]>>)

\* The strings decoded: the bounded raw strings, and the URIs of repository "a",
\* branch "m" with every bounded file path.
DecodedUris ==
    RawUris \cup {ResourceUri(<<"a">>, <<"m">>, p) : p \in StrOver(UriChars, MaxComponentLen)}

\* One string given to both decoders.
DecodeUri ==
    /\ called = NotCalled
    /\ \E uri \in DecodedUris :
          called' = [op |-> "decode", uri |-> uri,
                     parsed |-> parse_uri(uri),
                     decoded |-> decode_resource_uri(uri)]
    /\ UNCHANGED otherThanClient

NextDecode == DecodeUri

\* ------------------------------------------------------------ specifications

\* A call of _make_request under each configured max_retries.
InitSpecRequest == InitRequest(0 .. MaxMaxRetries) /\ InitKey /\ InitCache /\ InitLifecycle
        /\ InitClient /\ InitCalls /\ InitServer
SpecRequest == InitSpecRequest /\ [][NextRequest]_vars

\* RepositoryCacheKey.to_key and from_key applied to every bounded input.
InitSpecKey == InitRequest({MaxMaxRetries}) /\ InitKey /\ InitCache /\ InitLifecycle
        /\ InitClient /\ InitCalls /\ InitServer
SpecKey == InitSpecKey /\ [][NextKey]_vars

\* The operations of CacheManager on a cache whose clock runs.
InitSpecCache == InitRequest({MaxMaxRetries}) /\ InitKey /\ InitCache /\ InitLifecycle
        /\ InitClient /\ InitCalls /\ InitServer
SpecCache == InitSpecCache /\ [][NextCache]_vars

\* start(), stop() and the sweep tasks under every interleaving.
InitSpecLifecycle == InitRequest({MaxMaxRetries}) /\ InitKey /\ InitCache /\ InitLifecycle
        /\ InitClient /\ InitCalls /\ InitServer
SpecLifecycle == InitSpecLifecycle /\ [][NextLifecycle]_vars

\* The calls of ToolManager against the cache and an upstream that may answer
\* each fetch with a content or with an error.
InitSpecTools == InitRequest({MaxMaxRetries}) /\ InitKey /\ InitCache /\ InitLifecycle
        /\ InitClient /\ InitCalls /\ InitServer
SpecTools == InitSpecTools /\ [][NextTools]_vars

\* warm_cache over every list of repositories, with a fetch_function and a
\* cache backend that may fail, on a cache whose clock runs.
InitSpecWarm == InitRequest({MaxMaxRetries}) /\ InitKey /\ InitCache /\ InitLifecycle
        /\ InitClient /\ InitCalls /\ InitServer
SpecWarm == InitSpecWarm /\ [][NextWarm]_vars

\* find_files_by_pattern and fetch_rule_files applied to every bounded tree
\* listing, pattern list and sequence of upstream answers.
InitSpecClient ==
    InitRequest({MaxMaxRetries}) /\ InitKey /\ InitCache /\ InitLifecycle
        /\ InitClient /\ InitCalls /\ InitServer
SpecClient == InitSpecClient /\ [][NextClient]_vars

\* build_uri, parse_uri and validate_uri applied to every bounded string.
InitSpecUri ==
    InitRequest({MaxMaxRetries}) /\ InitKey /\ InitCache /\ InitLifecycle
        /\ InitClient /\ InitCalls /\ InitServer
SpecUri == InitSpecUri /\ [][NextUri]_vars

\* A resolution pass under every strategy over every bounded mapping.
InitSpecResolver ==
    InitRequest({MaxMaxRetries}) /\ InitKey /\ InitCache /\ InitLifecycle
        /\ InitClient /\ InitCalls /\ InitServer
SpecResolver == InitSpecResolver /\ [][NextResolver]_vars

\* refresh_rules, in steps, on a cache that set_rule_file has filled, with an
\* upstream and a cache backend that may fail.
InitSpecRefresh ==
    InitRequest({MaxMaxRetries}) /\ InitKey /\ InitCache /\ InitLifecycle
        /\ InitClient /\ InitCalls /\ InitServer
SpecRefresh == InitSpecRefresh /\ [][NextRefresh]_vars

\* Two calls of get_resource_content for one URI, interleaved at every await,
\* on an empty cache.
InitSpecCalls ==
    InitRequest({MaxMaxRetries}) /\ InitKey /\ InitCache /\ InitLifecycle
        /\ InitClient /\ InitCalls /\ InitServer
SpecCalls == InitSpecCalls /\ [][NextCalls]_vars

\* cleanup() of a server that was started or not, with the sweep task at any
\* point of its loop and a cache that may fail to close.
InitSpecServer ==
    InitRequest({MaxMaxRetries}) /\ InitKey /\ InitCache /\ InitLifecycle
        /\ InitClient /\ InitCalls /\ InitServer
SpecServer == InitSpecServer /\ [][NextServer]_vars

\* hit_rate read on every bounded pair of counters.
InitSpecStats ==
    InitRequest({MaxMaxRetries}) /\ InitKey /\ InitCache /\ InitLifecycle
        /\ InitClient /\ InitCalls /\ InitServer
SpecStats == InitSpecStats /\ [][NextStats]_vars

\* invalidate_repository between calls of get_resource_content, on a cache
\* whose clock runs.
InitSpecInvalidate ==
    InitRequest({MaxMaxRetries}) /\ InitKey /\ InitCache /\ InitLifecycle
        /\ InitClient /\ InitCalls /\ InitServer
SpecInvalidate == InitSpecInvalidate /\ [][NextInvalidate]_vars

\* Every bounded string given to the decoding of get_resource_content and to
\* parse_uri.
InitSpecDecode ==
    InitRequest({MaxMaxRetries}) /\ InitKey /\ InitCache /\ InitLifecycle
        /\ InitClient /\ InitCalls /\ InitServer
SpecDecode == InitSpecDecode /\ [][NextDecode]_vars

\* The event loop fires every timer that is due: a task suspended in
\* asyncio.sleep and not cancelled is resumed.
TimersFire ==
    \A i \in 1 .. MaxStarts :
        /\ WF_vars(i <= Len(tasks) /\ SleepElapsesAt(i))
        /\ WF_vars(i <= Len(tasks) /\ BackoffElapsesAt(i))

SpecLifecycleFair == SpecLifecycle /\ TimersFire

\* The event loop runs what is ready: a task whose cancellation was requested
\* is resumed with CancelledError, the awaiter of a finished task is resumed,
\* and cache.close() returns.
LoopRuns ==
    /\ \A i \in 1 .. MaxStarts : WF_vars(i <= Len(tasks) /\ CancelDeliveredAt(i))
    /\ WF_vars(StopAwaitEnds)
    /\ WF_vars(StopCloses)

SpecStopFair == SpecLifecycle /\ TimersFire /\ LoopRuns

\* ---------------------------------------------- properties of _make_request

Only429(n) == \A i \in 1 .. n : responses[i] = Response(429)
IsSuccess(r) == r.kind = "response" /\ r.status < 400
IsRetryable(r) == r.kind = RequestError \/ r.status = 429

\* C1: while the server has answered 429 on each of the first k <= max_retries
\* requests the call is still going, about to issue request k+1; and when request
\* k+1 is answered successfully the call returns that response, having issued
\* exactly k+1 requests.
C1_RetryThenSuccess ==
    \A k \in 0 .. max_retries :
        /\ (Len(responses) = k /\ Only429(k)) =>
               (outcome = Running /\ attempt = k)
        /\ (Len(responses) >= k + 1 /\ Only429(k) /\ IsSuccess(responses[k + 1])) =>
               (outcome = Returned(responses[k + 1].status) /\ Len(responses) = k + 1)

\* max_retries = 3: three 429 responses, then a success on the fourth request.
C1_Witness ==
    /\ max_retries = 3
    /\ responses = <<Response(429), Response(429), Response(429), Response(200)>>
    /\ outcome = Returned(200)

\* C2 (as claimed): after max_retries + 1 consecutive 429 responses the call has
\* raised the "Max retries exceeded" error, which is not the error raised for
\* an HTTP error status.
C2_RetryExhaustedError ==
    (Len(responses) = max_retries + 1 /\ Only429(max_retries + 1)) =>
        /\ outcome.kind = "raised"
        /\ outcome.message = "Max retries exceeded"

\* C3: a response with a status >= 400 other than 429 is the last request of the
\* call: the call has raised GitLabClientError with exactly that status, and no
\* wait follows it (every wait precedes a later request).
C3_PermanentErrorNotRetried ==
    \A i \in 1 .. Len(responses) :
        (responses[i].kind = "response" /\ responses[i].status >= 400
            /\ responses[i].status # 429) =>
            /\ i = Len(responses)
            /\ outcome.kind = "raised"
            /\ outcome.status = responses[i].status
            /\ Len(waits) = i - 1

\* A 500 after one retried 429.
C3_Witness ==
    /\ responses = <<Response(429), Response(500)>>
    /\ outcome = GitLabClientError("HTTP", 500)
    /\ waits = <<1>>

\* C4: the i-th wait of a call is 2^(i-1); a wait follows every 429 and every
\* transport error among the first max_retries attempts and nothing else, so
\* there is no wait after attempt number max_retries.
C4_ExponentialBackoff ==
    /\ \A i \in 1 .. Len(waits) : waits[i] = 2 ^ (i - 1)
    /\ Len(waits) =
          Cardinality({i \in 1 .. Len(responses) :
                          IsRetryable(responses[i]) /\ i <= max_retries})
    /\ Len(waits) <= max_retries

\* Waits 1, 2, 4 after a mix of 429s and transport errors, and none after the
\* fourth (last allowed) attempt.
C4_Witness ==
    /\ max_retries = 3
    /\ responses = <<Response(429), TransportFailure, Response(429), TransportFailure>>
    /\ waits = <<1, 2, 4>>
    /\ outcome.kind = "raised"

\* ------------------------------------------ properties of RepositoryCacheKey

Colons(s) == Cardinality({i \in 1 .. Len(s) : s[i] = ":"})
Triples ==
    {RepositoryCacheKey(u, b, p) :
        u \in Str(MaxSegmentLen), b \in Str(MaxSegmentLen), p \in Str(MaxSegmentLen)}

\* C6 (as claimed): parsing the key formatted from (repository_url, branch,
\* file_path) gives back the same three components.
C6_RoundTrip ==
    (key_fields # NoFields /\ parsed # NotParsed) => parsed = Parsed(key_fields)

\* C7 (as claimed): no other (repository_url, branch, file_path) formats to the
\* key that the formatted triple produced.
C7_KeysInjective ==
    key_fields # NoFields =>
        \A t \in Triples : to_key(t) = key => t = key_fields

\* C8: from_key raises for a key with fewer than two colons; for a key with at
\* least two it returns the components cut at the first two colons:
\* repository_url and branch hold no colon and
\* repository_url ":" branch ":" file_path is the key, so every later colon is
\* in file_path.
C8_FromKeySplitsAtFirstTwoColons ==
    parsed # NotParsed =>
        IF Colons(key) < 2
        THEN parsed = ValueError
        ELSE /\ parsed.ok
             /\ Colons(parsed.value.repository_url) = 0
             /\ Colons(parsed.value.branch) = 0
             /\ parsed.value.repository_url \o <<":">> \o parsed.value.branch
                    \o <<":">> \o parsed.value.file_path = key

\* A key with three colons: the third stays in file_path.
C8_Witness ==
    /\ key = <<"a", ":", ":", ":">>
    /\ parsed = Parsed(RepositoryCacheKey(<<"a">>, <<>>, <<":">>))

\* A key with one colon is rejected.
C8_WitnessRejected ==
    /\ key = <<"a", ":", "a">>
    /\ parsed = ValueError

\* --------------------------------------------- properties of the cache manager

\* Key k is the key of some file of the repository (on its branch).
IsKeyOf(repository, k) ==
    LET n == Len(repository.url) + Len(repository.branch) + 2 IN
    /\ Len(k) >= n
    /\ to_key(RepositoryCacheKey(repository.url, repository.branch,
                                 SubSeq(k, n + 1, Len(k)))) = k

\* C5: a get_rule_file of a key last set at time `at` with TTL `ttl` (and not
\* deleted since) returns the stored value at every time before at + ttl and
\* None at every time after at + ttl, whatever sweeps ran in between.
C5_ExpiryCheckedOnRead ==
    last.op = "get_rule_file" =>
        LET k == make_repository_key(last.repository, last.file_path) IN
        k \in DOMAIN written =>
            /\ now < written[k].at + written[k].ttl =>
                   last.result = Some(written[k].value)
            /\ now > written[k].at + written[k].ttl =>
                   last.result = Nothing

\* A read after the expiry time of an entry that no sweep has removed.
C5_Witness ==
    /\ last.op = "get_rule_file"
    /\ LET k == make_repository_key(last.repository, last.file_path) IN
       /\ k \in DOMAIN store
       /\ now > store[k].created_at + store[k].ttl_seconds
       /\ last.result = Nothing

\* C9: invalidate_repository returns the number of keys of that repository and
\* branch that were in the cache before the call, which is the number of entries
\* it removed; right after it the cache holds no key of the repository, the
\* enumeration of its pattern is empty and get_repository_rules is empty.
C9_InvalidateCountsAndEmpties ==
    last.op = "invalidate_repository" =>
        /\ last.result =
              Cardinality({k \in DOMAIN last.before : IsKeyOf(last.repository, k)})
        /\ last.result = Cardinality(DOMAIN last.before \ DOMAIN store)
        /\ {k \in DOMAIN store : IsKeyOf(last.repository, k)} = {}
        /\ cache_keys(store, repository_pattern(last.repository)) = {}
        /\ get_repository_rules(store, last.repository, now) = <<>>

\* The two cached files of a repository invalidated.
C9_Witness ==
    /\ store = <<>>
    /\ last.op = "invalidate_repository"
    /\ last.result = 2
    /\ last.repository = GitLabRepository(<<"a">>, <<"m">>)

\* --------------------------------------------------- properties of stop()

\* C10: stop() closes the cache only once the sweep task it cancelled has
\* finished, the task has finished (and the cache is closed) when stop()
\* returns, and stop() never ends by raising the task's CancelledError.
C10_StopAwaitsSweepThenCloses ==
    /\ (stop_pc \in {"closing", "returned"} /\ cleanup_task # NoTask) =>
           Finished(tasks[cleanup_task])
    /\ stop_pc = "returned" => closed
    /\ stop_pc # "raised"

\* stop() has returned after awaiting a task that ended cancelled: the
\* CancelledError its await raised was swallowed.
C10_Witness ==
    /\ stop_pc = "returned"
    /\ cleanup_task # NoTask
    /\ tasks[cleanup_task].pc = "cancelled"
    /\ closed

\* C11: once stop() has returned, no sweep task that start() created is
\* still running, and at no time are two sweep tasks of the manager alive.
C11_NoSweepTaskLeftRunning ==
    /\ stop_pc = "returned" => \A i \in 1 .. Len(tasks) : Finished(tasks[i])
    /\ Cardinality({i \in 1 .. Len(tasks) : ~Finished(tasks[i])}) <= 1

\* A step of a call of stop(), as opposed to a step of start() or of a task.
StopStep == stop_pc' # stop_pc /\ Len(tasks') = Len(tasks)

\* The call of stop() in progress has nothing left to stop: the manager was
\* never started, or a stop() has returned since the last start().
RedundantStop == cleanup_task = NoTask \/ stops >= 1

C12_WitnessNeverStarted ==
    /\ stop_pc = "returned"
    /\ tasks = <<>>
    /\ cleanup_task = NoTask

\* C13: a sweep that raises leaves its task in the 60 backoff sleep, not
\* finished, and the task then makes another sweep attempt unless a
\* cancellation is requested of it first.
C13_FailedSweepIsRetried ==
    /\ [][\A i \in 1 .. MaxStarts :
              (i \in sweep_failed' /\ i \notin sweep_failed) =>
                  tasks'[i].pc = "sleep60"]_vars
    /\ \A i \in 1 .. MaxStarts :
           (i \in sweep_failed) ~>
               (i \notin sweep_failed \/ (i <= Len(tasks) /\ tasks[i].cancelling))

\* A task is sweeping again after a sweep of its own raised and the backoff
\* elapsed.
C13_Witness ==
    \E i \in 1 .. Len(tasks) :
        /\ i \in resumed
        /\ i \notin sweep_failed
        /\ tasks[i].pc = "cleanup"

\* ------------------------------------------------ properties of ToolManager

Configured(repository, branch) ==
    \E i \in DOMAIN ConfiguredRepositories :
        ConfiguredRepositories[i] = GitLabRepository(repository, branch)

\* Whether the tools.json text lists the path among some tool's resources.
Lists(content, file_path) ==
    parse_manifest(content).raised = "none" /\ file_path \in Resources(content)

\* The path is listed neither by the specification cached for the repository
\* when the call began nor by the tools.json the upstream answered with.
Unlisted(call, repository, branch, file_path) ==
    LET k == tools_cache_key(GitLabRepository(repository, branch)) IN
    /\ k \in DOMAIN call.before => ~Lists(call.before[k].value, file_path)
    /\ \A r \in 1 .. Len(call.did.requests) :
           call.did.requests[r].site = "tools" =>
               \A m \in Manifests :
                   call.manifest_reply = Fetched(m) => ~Lists(m, file_path)

C15_UnconfiguredRepositoryIsRejectedFirst ==
    \A r \in UriRepositories, b \in UriBranches, p \in UriPaths :
        (/\ last.op = "get_resource_content"
         /\ last.resource_uri = ResourceUri(r, b, p)
         /\ ~Configured(r, b)) =>
            /\ last.did.result = Raises("ToolSpecificationError")
            /\ last.did.requests = <<>>
            /\ last.did.reads = {}
            /\ last.did.sets = {}
            /\ store = last.before

\* Branch "d" of the configured project "a" was asked for while the cache
\* held entries, and the call was rejected.
C15_Witness ==
    /\ last.op = "get_resource_content"
    /\ last.resource_uri = ResourceUri(<<"a">>, <<"d">>, <<"f">>)
    /\ DOMAIN last.before # {}
    /\ last.did.result = Raises("ToolSpecificationError")

\* C16: when _load_repository_tools fetches tools.json and the fetch fails,
\* status 404 makes it return None with the cache left as it was, and every
\* other client error makes it raise ToolSpecificationError; load_all_tools
\* calls it for every configured repository, whatever the earlier ones gave,
\* and takes None from each one whose fetch answered 404.
C16_MissingManifestIsNotAnError ==
    /\ (/\ last.op = "load_repository_tools"
        /\ last.did.requests # <<>>
        /\ ~last.reply.ok) =>
           IF last.reply.status_code = 404
           THEN /\ last.did.result = Returns(Nothing)
                /\ last.did.sets = {}
                /\ store = last.before
           ELSE last.did.result = Raises("ToolSpecificationError")
    /\ last.op = "load_all_tools" =>
           /\ Len(last.did.result.loaded) = Len(ConfiguredRepositories)
           /\ \A i \in DOMAIN ConfiguredRepositories :
                  (/\ ~Truthy(cache_get(last.before,
                                        tools_cache_key(ConfiguredRepositories[i]),
                                        now))
                   /\ last.replies[i] = FetchFailed(404)) =>
                      last.did.result.loaded[i] = Returns(Nothing)

\* load_all_tools met a 404 for the first repository and loaded the
\* specification of the second.
C16_Witness ==
    /\ last.op = "load_all_tools"
    /\ last.replies[1] = FetchFailed(404)
    /\ last.did.result.loaded[1] = Returns(Nothing)
    /\ last.did.result.loaded[2] = Returns(Some("S1"))
    /\ Len(last.did.requests) = 2

\* ------------------------------------------------- properties of warm_cache

\* The cache st holds, at time t, an entry of the repository that has not
\* expired and whose content is not empty.
HasContent(st, repository, t) ==
    \E k \in DOMAIN st :
        IsKeyOf(repository, k) /\ ~is_expired(st[k], t) /\ st[k].value # ""

\* The files of rule_files are in the cache st as set at time t with the
\* default TTL, and every other key of st is as in the cache `before`.
Stored(st, before, repository, rule_files, t) ==
    LET keys == {make_repository_key(repository, rule_files[j][1]) :
                    j \in 1 .. Len(rule_files)} IN
    /\ DOMAIN st = DOMAIN before \cup keys
    /\ \A j \in 1 .. Len(rule_files) :
           st[make_repository_key(repository, rule_files[j][1])] =
               CacheEntry(rule_files[j][2], t, DefaultTtl)
    /\ \A k \in DOMAIN before \ keys : st[k] = before[k]

\* An iteration of warm_cache that found the cache as st does what warm_cache
\* is to do for its repository: nothing if some content is cached, else one
\* fetch whose files are all stored (unless the fetch or the cache failed).
Warmed(step, t) ==
    IF HasContent(step.before, step.repository, t)
    THEN ~step.fetched /\ step.after = step.before
    ELSE ~step.raised =>
             /\ step.fetched
             /\ step.rule_files.present
             /\ Stored(step.after, step.before, step.repository,
                       step.rule_files.value, t)

C18_WarmCacheIsolatesFailures ==
    [][(last # Idle /\ last.op = "warm_cache" /\ last.step # NoStep
            /\ last.step.raised /\ last' # last) =>
           IF last.i <= Len(last.repositories)
           THEN /\ last' # Idle
                /\ ~last'.raised
                /\ last'.step.position = last.i
                /\ last'.step.repository = last.repositories[last.i]
                /\ last'.step.before = store
                /\ Warmed(last'.step, now)
           ELSE ~last.raised /\ last' = Idle]_vars

\* The first repository's fetch raised; the second was then fetched and its
\* two files stored.
C18_Witness ==
    /\ last.op = "warm_cache"
    /\ last.step # NoStep
    /\ last.step.position = 2
    /\ last.step.fetched
    /\ ~last.step.raised
    /\ last.step.rule_files.present
    /\ Len(last.step.rule_files.value) = 2
    /\ last.failed = {1}
    /\ ~last.raised

\* -------------- properties of find_files_by_pattern and fetch_rule_files

\* The entries of the tree listing, in its order, that are blobs and whose
\* path matches at least one of the patterns.
Discovered(tree_entries, patterns) ==
    LET wanted(entry) ==
            /\ entry.type = "blob"
            /\ \E i \in 1 .. Len(patterns) : fnmatch(entry.path, patterns[i])
    IN SelectSeq(tree_entries, wanted)

\* C19: when fetch_rule_files has its patterns and the tree listing succeeded,
\* it returns, whatever fetches of single files failed, and the mapping
\* returned holds exactly the paths of the discovered files whose fetch
\* succeeded, each with the content fetched (the last one, for a path listed
\* twice).
C19_PartialFetchSucceeds ==
    (/\ called.op = "fetch_rule_files"
     /\ called.repository.file_patterns.present
     /\ called.tree.present) =>
        LET files == Discovered(called.tree.value,
                                called.repository.file_patterns.value)
            fetched == {j \in 1 .. Len(files) : called.replies[j].ok}
        IN
        /\ called.result.raised = "none"
        /\ DOMAIN called.result.value = {files[j].path : j \in fetched}
        /\ \A j \in fetched :
               (\A n \in fetched : files[n].path = files[j].path => n <= j) =>
                   called.result.value[files[j].path] = called.replies[j].content

\* Two files were discovered; the fetch of the first failed and the second is
\* the only file returned.
C19_Witness ==
    /\ called.op = "fetch_rule_files"
    /\ called.repository.file_patterns = Some(<<<<"*">>>>)
    /\ called.tree = Some(<<GitLabTree(<<"a">>, "blob"), GitLabTree(<<"b">>, "blob")>>)
    /\ ~called.replies[1].ok
    /\ called.replies[2] = Fetched("y")
    /\ called.result.raised = "none"
    /\ DOMAIN called.result.value = {<<"b">>}

\* C20: find_files_by_pattern returns the blob entries of the listing that
\* match at least one pattern, in the order of the listing, each as often as
\* the listing holds it, and no entry of another type.
C20_FindReturnsMatchingBlobsOnce ==
    (called.op = "find_files_by_pattern" /\ called.tree.present) =>
        called.result = Returns(Discovered(called.tree.value, called.patterns))

\* A directory and a file both match both patterns; the file alone is
\* returned, once.
C20_Witness ==
    /\ called.op = "find_files_by_pattern"
    /\ called.patterns = <<<<"*">>, <<"a", "*">>>>
    /\ called.tree = Some(<<GitLabTree(<<"a">>, "tree"),
                            GitLabTree(<<"a", "/", "b">>, "blob")>>)
    /\ called.result = Returns(<<GitLabTree(<<"a", "/", "b">>, "blob")>>)

\* ------------------------------------------- properties of ResourceURIHandler

\* A component that build_uri leaves as it is: not empty, no "/" at either end.
Trimmed(s) == s # <<>> /\ Head(s) # "/" /\ s[Len(s)] # "/"

\* C21: parse_uri(build_uri(r, b, p)) returns (r, b, p) whenever r, b and p are
\* non-empty and have no leading or trailing "/".
C21_UriRoundTrip ==
    (called.op = "parse_uri" /\ called.built_from.present) =>
        LET c == called.built_from.value IN
        (Trimmed(c[1]) /\ Trimmed(c[2]) /\ Trimmed(c[3])) =>
            called.result = Returns(c)

\* What follows "aimcp://" in the uri, its repository segment (up to the first
\* "/"), and what follows the repository with the leading "/"s removed.
AfterScheme(uri) == SubSeq(uri, Len(aimcp_scheme) + 1, Len(uri))
RepositorySegment(uri) == Split(AfterScheme(uri), "/", 1)[1]
AfterRepository(uri) ==
    lstrip(SubSeq(AfterScheme(uri), Len(RepositorySegment(uri)) + 1,
                  Len(AfterScheme(uri))))

\* What follows the repository has no "/" with a non-empty branch before it
\* and a non-empty file path behind it.
LacksBranchOrPath(uri) ==
    LET parts == Split(AfterRepository(uri), "/", 1) IN
    Len(parts) < 2 \/ parts[1] = <<>> \/ parts[2] = <<>>

\* C22: parse_uri raises ResourceURIError for a uri that does not start with
\* "aimcp://", whose repository segment is empty, or in which the repository
\* is not followed by a non-empty branch and a non-empty file path; and
\* validate_uri returns False exactly when parse_uri raises, True otherwise.
C22_MalformedUriIsRejected ==
    /\ (/\ called.op = "parse_uri"
        /\ \/ ~StartsWith(called.uri, aimcp_scheme)
           \/ RepositorySegment(called.uri) = <<>>
           \/ LacksBranchOrPath(called.uri))
           => called.result = Raises("ResourceURIError")
    /\ called.op = "validate_uri" =>
           called.result = Returns(parse_uri(called.uri).raised = "none")

\* parse_uri("aimcp:///a/a") raised: the repository segment is empty.
C22_Witness ==
    /\ called.op = "parse_uri"
    /\ called.uri = aimcp_scheme \o <<"/", "a", "/", "a">>
    /\ called.result = Raises("ResourceURIError")

\* validate_uri("aimcp://a/a/") gave False: the file path is empty.
C22_WitnessValidate ==
    /\ called.op = "validate_uri"
    /\ called.uri = aimcp_scheme \o <<"a", "/", "a", "/">>
    /\ called.result = Returns(FALSE)

\* -------------------------------------------------- properties of ToolResolver

\* The tool of that name in the list of the i-th repository of the mapping,
\* the positions of the repositories that define the name, the names that
\* several repositories define, and the first repository to define a name.
ToolNamed(repo_tools, i, name) ==
    LET tools == repo_tools[i].spec.tools IN
    tools[CHOOSE j \in DOMAIN tools : tools[j].name = name]
Defining(repo_tools, name) ==
    {i \in DOMAIN repo_tools :
        \E j \in DOMAIN repo_tools[i].spec.tools :
            repo_tools[i].spec.tools[j].name = name}
ToolNames(repo_tools) ==
    UNION {{repo_tools[i].spec.tools[j].name :
               j \in DOMAIN repo_tools[i].spec.tools} : i \in DOMAIN repo_tools}
SharedNames(repo_tools) ==
    {name \in ToolNames(repo_tools) : Cardinality(Defining(repo_tools, name)) > 1}
FirstDefining(repo_tools, name) ==
    CHOOSE i \in Defining(repo_tools, name) :
        \A k \in Defining(repo_tools, name) : i <= k

\* A pass under the strategy has returned a resolved set.
Resolved(strategy) ==
    /\ called.op = "resolve_tools"
    /\ called.strategy = strategy
    /\ called.result.raised = "none"

\* The entries of the resolved set with that original name, and the entries
\* of the conflict report for the name.
EntriesNamed(name) ==
    {k \in DOMAIN called.result.value.tools :
        called.result.value.tools[k].original_name = name}
ConflictsNamed(name) ==
    {k \in DOMAIN called.result.value.conflicts :
        called.result.value.conflicts[k].name = name}

C24_PriorityKeepsFirst ==
    Resolved("priority") =>
        \A name \in SharedNames(called.repo_tools) :
            LET first == FirstDefining(called.repo_tools, name)
                tools == called.result.value.tools
                conflicts == called.result.value.conflicts
            IN
            /\ \E k \in DOMAIN tools :
                  /\ EntriesNamed(name) = {k}
                  /\ tools[k].resolved_name = name
                  /\ tools[k].repository = called.repo_tools[first].repository.url
                  /\ tools[k].specification =
                         ToolNamed(called.repo_tools, first, name)
            /\ \E c \in DOMAIN conflicts :
                  /\ ConflictsNamed(name) = {c}
                  /\ conflicts[c].strategy_applied = "priority"
                  /\ \A i \in Defining(called.repo_tools, name) \ {first} :
                         \E r \in DOMAIN conflicts[c].repositories :
                             conflicts[c].repositories[r] =
                                 called.repo_tools[i].repository.url

\* Repositories [a, b] both define "build" (with different resources): a's
\* definition was kept and one conflict, naming b, recorded.
C24_Witness ==
    /\ Resolved("priority")
    /\ Len(called.repo_tools) = 2
    /\ called.repo_tools[1].spec.tools = <<MCPTool(<<"build">>, <<<<"f">>>>)>>
    /\ called.repo_tools[2].spec.tools =
           <<MCPTool(<<"build">>, <<<<"f">>, <<"g">>>>), MCPTool(<<"test">>, <<>>)>>
    /\ EntriesNamed(<<"build">>) = {1}
    /\ called.result.value.tools[1].specification =
           MCPTool(<<"build">>, <<<<"f">>>>)
    /\ Len(called.result.value.conflicts) = 1
    /\ called.result.value.conflicts[1].repositories = <<<<"a">>, <<"b">>>>

\* C25: under `error`, when several repositories define some name the pass
\* raises a conflict error that carries such a name and the urls of all the
\* repositories that define it, and returns nothing; when no name is shared
\* it returns every tool under its own name.
C25_ErrorStrategyAborts ==
    (called.op = "resolve_tools" /\ called.strategy = "error") =>
        IF SharedNames(called.repo_tools) # {}
        THEN /\ called.result.raised = "ConflictResolutionError"
             /\ "value" \notin DOMAIN called.result
             /\ called.result.name \in SharedNames(called.repo_tools)
             /\ {called.result.repositories[r] :
                    r \in DOMAIN called.result.repositories} =
                {called.repo_tools[i].repository.url :
                    i \in Defining(called.repo_tools, called.result.name)}
        ELSE /\ called.result.raised = "none"
             /\ \A name \in ToolNames(called.repo_tools) :
                    \E k \in DOMAIN called.result.value.tools :
                        /\ EntriesNamed(name) = {k}
                        /\ called.result.value.tools[k].resolved_name = name
             /\ called.result.value.conflicts = <<>>

\* Repositories a and b both define "build": the pass raised, naming both.
C25_Witness ==
    /\ called.op = "resolve_tools"
    /\ called.strategy = "error"
    /\ Len(called.repo_tools) = 2
    /\ called.result.raised = "ConflictResolutionError"
    /\ called.result.name = <<"build">>
    /\ called.result.repositories = <<<<"a">>, <<"b">>>>

\* No name is shared and the pass returned the three tools.
C25_WitnessNoConflict ==
    /\ Resolved("error")
    /\ Len(called.result.value.tools) = 3

\* C26: under `prefix` every tool of every repository is in the resolved set,
\* once, under the name "{short name of its repository}:{its name}", whether
\* or not the name is shared; and the report has one entry for each name that
\* several repositories define, and no other.
C26_PrefixRenamesEveryTool ==
    Resolved("prefix") =>
        LET tools == called.result.value.tools
            conflicts == called.result.value.conflicts
        IN
        /\ \A i \in DOMAIN called.repo_tools :
               \A j \in DOMAIN called.repo_tools[i].spec.tools :
                   LET tool == called.repo_tools[i].spec.tools[j]
                       url == called.repo_tools[i].repository.url
                   IN Cardinality(
                          {k \in DOMAIN tools :
                              /\ tools[k].original_name = tool.name
                              /\ tools[k].repository = url
                              /\ tools[k].specification = tool
                              /\ tools[k].resolved_name =
                                     url \o <<":">> \o tool.name}) = 1
        /\ \A j, k \in DOMAIN tools :
               (j # k /\ tools[j].original_name = tools[k].original_name) =>
                   tools[j].resolved_name # tools[k].resolved_name
        /\ \A name \in SharedNames(called.repo_tools) :
               Cardinality(ConflictsNamed(name)) = 1
        /\ Len(conflicts) = Cardinality(SharedNames(called.repo_tools))

\* Repositories a and b define "build" and b defines "test" alone: the set
\* holds a:build, b:build and b:test, and the report one entry.
C26_Witness ==
    /\ Resolved("prefix")
    /\ Len(called.repo_tools) = 2
    /\ {called.result.value.tools[k].resolved_name :
           k \in DOMAIN called.result.value.tools} =
       {<<"a", ":", "build">>, <<"b", ":", "build">>, <<"b", ":", "test">>}
    /\ Len(called.result.value.conflicts) = 1

\* C27: under `merge`, of a name that several repositories define the
\* resolved set holds one entry; its resources are those of all the tools of
\* that name, its specification is the one of the first repository that
\* defines the name, and one conflict record of the name notes the merge.
C27_MergeUnitesResources ==
    Resolved("merge") =>
        \A name \in SharedNames(called.repo_tools) :
            LET first == FirstDefining(called.repo_tools, name)
                tools == called.result.value.tools
                conflicts == called.result.value.conflicts
            IN
            /\ \E k \in DOMAIN tools :
                  /\ EntriesNamed(name) = {k}
                  /\ tools[k].specification =
                         ToolNamed(called.repo_tools, first, name)
                  /\ {tools[k].resource_uris[u] :
                         u \in DOMAIN tools[k].resource_uris} =
                     UNION {LET r == called.repo_tools[i].repository
                                t == ToolNamed(called.repo_tools, i, name)
                            IN {build_uri(r.url, r.branch, t.resources[p]) :
                                   p \in DOMAIN t.resources} :
                            i \in Defining(called.repo_tools, name)}
            /\ \E c \in DOMAIN conflicts :
                  /\ ConflictsNamed(name) = {c}
                  /\ conflicts[c].strategy_applied = "merge"
                  /\ conflicts[c].resolution = "merged"

\* a's "build" with resource f and b's with f and g were merged into one
\* entry with a's specification and three resource URIs.
C27_Witness ==
    /\ Resolved("merge")
    /\ Len(called.repo_tools) = 2
    /\ called.repo_tools[1].spec.tools = <<MCPTool(<<"build">>, <<<<"f">>>>)>>
    /\ called.repo_tools[2].spec.tools =
           <<MCPTool(<<"build">>, <<<<"f">>, <<"g">>>>), MCPTool(<<"test">>, <<>>)>>
    /\ EntriesNamed(<<"build">>) = {1}
    /\ called.result.value.tools[1].specification =
           MCPTool(<<"build">>, <<<<"f">>>>)
    /\ Len(called.result.value.tools[1].resource_uris) = 3

\* ------------------------------------------------ properties of load_all_tools

\* C28: load_all_tools visits every configured repository whatever the
\* earlier ones raised, and the mapping it hands to the resolver holds exactly
\* the repositories whose specification loaded, in the configured order (with
\* none loaded the mapping is empty, the resolver is not called and the result
\* is the empty list).
C28_LoadAllToolsIsolatesFailures ==
    last.op = "load_all_tools" =>
        LET result == last.did.result
            loaded == {i \in DOMAIN result.loaded :
                          /\ result.loaded[i].raised = "none"
                          /\ result.loaded[i].value.present}
        IN /\ Len(result.loaded) = Len(ConfiguredRepositories)
           /\ result.repo_tools = Ascending(loaded)

\* ------------------------------------------------- properties of refresh_rules

\* A call of refresh_rules has come to its end.
RefreshDone == last.op = "refresh_rules" /\ last.done

\* C29: refresh_rules returns a RefreshResult whatever the iterations raised;
\* it has then made an iteration for every selected repository, its errors
\* are one per repository whose iteration raised, in order and naming the
\* repository, and success is true exactly when there is no error. For a name
\* that no configured repository has, the result is success = false with one
\* error, the cache is as it was and fetch_rule_files was not called.
C29_RefreshReportsFailures ==
    RefreshDone =>
        /\ last.result.raised = "none"
        /\ last.result.value.success = (last.result.value.errors = <<>>)
        /\ IF /\ named(last.repository)
              /\ \A c \in DOMAIN HandlerRepositories :
                     HandlerRepositories[c].url # last.repository.value
           THEN /\ ~last.result.value.success
                /\ Len(last.result.value.errors) = 1
                /\ store = last.before
                /\ last.fetches = 0
                /\ last.step = NoStep
           ELSE /\ last.i = Len(last.repositories) + 1
                /\ Len(last.result.value.errors) = Cardinality(last.failed)
                /\ LET failed == Ascending(last.failed) IN
                   \A k \in DOMAIN failed :
                       last.result.value.errors[k].repository =
                           last.repositories[failed[k]].url

\* refresh_rules(None): both iterations raised (the second in the cache) and
\* the result has two errors.
C29_Witness ==
    /\ RefreshDone
    /\ last.repository = Nothing
    /\ last.failed = {1, 2}
    /\ last.result.raised = "none"
    /\ ~last.result.value.success
    /\ Len(last.result.value.errors) = 2

\* refresh_rules("c") returned success = false on a cache that holds entries.
C29_WitnessNotFound ==
    /\ RefreshDone
    /\ last.repository = Some(<<"c">>)
    /\ DOMAIN store # {}
    /\ ~last.result.value.success

\* refresh_rules of the repository with file_patterns succeeded.
C29_WitnessSuccess ==
    /\ RefreshDone
    /\ last.result.raised = "none"
    /\ last.result.value.success
    /\ last.result.value.updated_files = 2

\* C37: in an iteration of refresh_rules whose fetch_rule_files failed, every
\* key of the repository that the cache held before is absent afterwards, and
\* every rule file of a different (url, branch) that was cached is still
\* cached, its entry as it was.
C37_InvalidatesBeforeFetching ==
    (/\ last.op = "refresh_rules"
     /\ last.step # NoStep
     /\ last.step.fetched
     /\ last.step.raised) =>
        LET repo == last.step.repository IN
        /\ \A k \in DOMAIN last.step.before :
               IsKeyOf(repo, k) => k \notin DOMAIN last.step.after
        /\ \A file \in Files :
               LET k == make_repository_key(file[1], file[2]) IN
               (/\ <<file[1].url, file[1].branch>> # <<repo.url, repo.branch>>
                /\ k \in DOMAIN last.step.before) =>
                   /\ k \in DOMAIN last.step.after
                   /\ last.step.after[k] = last.step.before[k]

\* --------------------- properties of concurrent calls of get_resource_content

\* The contents the upstream returned to the fetches of the file, and the
\* callers that made such a fetch.
FetchedContents ==
    {upstream[k].content : k \in {j \in DOMAIN upstream : upstream[j].site = "resource"}}
Fetchers ==
    {upstream[k].call : k \in {j \in DOMAIN upstream : upstream[j].site = "resource"}}

\* C30: whatever the interleaving of two calls of get_resource_content for one
\* URI on an empty cache, a call that has ended has returned a content that
\* the upstream returned to a fetch of the file, and when both have ended the
\* cache holds exactly one resource key, "resource:a:m:f", with a content
\* returned by one of the fetches. (C30_Witness: both calls can fetch.)
C30_ConcurrentMissesBothFetch ==
    /\ \A c \in Callers :
           calls[c].pc = "done" =>
               /\ calls[c].result.raised = "none"
               /\ calls[c].result.value \in FetchedContents
    /\ (\A c \in Callers : calls[c].pc = "done") =>
           LET cache_key == <<"r", "e", "s", "o", "u", "r", "c", "e", ":", "a", ":",
                              "m", ":", "f">>
           IN /\ {k \in DOMAIN store : Head(k) = "r"} = {cache_key}
              /\ store[cache_key].value \in FetchedContents

\* Both calls have fetched the file from the upstream, with different
\* contents, and both have ended.
C30_Witness ==
    /\ \A c \in Callers : calls[c].pc = "done"
    /\ Fetchers = Callers
    /\ calls[1].result = Returns("x")
    /\ calls[2].result = Returns("y")

\* ------------------------------------- properties of _load_repository_tools

\* C31: when _load_repository_tools fetches a tools.json that is not valid
\* JSON, or that is no specification, the call raises ToolSpecificationError
\* after that one fetch and the cache is left as it was.
C31_MalformedManifestIsRejected ==
    (/\ last.op = "load_repository_tools"
     /\ last.did.requests # <<>>
     /\ last.reply.ok
     /\ parse_manifest(last.reply.content).raised # "none") =>
        /\ last.did.result = Raises("ToolSpecificationError")
        /\ Len(last.did.requests) = 1
        /\ last.did.sets = {}
        /\ store = last.before

\* ------------------------------------------------ properties of cleanup()

\* C32: when cleanup() has ended, by returning or by raising, the sweep task
\* is finished and the HTTP client is closed.
C32_CleanupReleasesBoth ==
    cleanup_pc \in {"returned", "raised"} =>
        /\ \A i \in 1 .. Len(tasks) : Finished(tasks[i])
        /\ client_closed

\* ------------------------------------------------- properties of CacheStats

\* The fraction r is the number n / d.
IsQuotient(r, n, d) == r.den > 0 /\ r.num * d = n * r.den

\* C33: hit_rate is hit_count / (hit_count + miss_count), it is exactly 0
\* when both counts are 0, and it is 0.75 (75 / 100) for 3 hits and 1 miss.
C33_HitRate ==
    called.op = "hit_rate" =>
        LET total == called.hit_count + called.miss_count IN
        /\ total = 0 => called.result = Zero
        /\ total # 0 => IsQuotient(called.result, called.hit_count, total)
        /\ (called.hit_count = 3 /\ called.miss_count = 1) =>
               IsQuotient(called.result, 75, 100)

\* hit_rate was read after 3 hits and 1 miss.
C33_Witness ==
    /\ called.op = "hit_rate"
    /\ called.hit_count = 3
    /\ called.miss_count = 1
    /\ called.result = [num |-> 3, den |-> 4]

\* hit_rate was read with no request counted.
C33_WitnessNoRequests ==
    /\ called.op = "hit_rate"
    /\ called.hit_count = 0
    /\ called.miss_count = 0
    /\ called.result = Zero

\* -------------------------------- properties of _make_request: termination

\* The first k replies were all retried kinds (429 or transport failure).
OnlyRetryable(k) == \A i \in 1 .. k : IsRetryable(responses[i])

\* C34: a call never issues more than max_retries + 1 requests and is over
\* once it has issued that many; 429s and transport failures are counted by
\* the one attempt counter, which never exceeds max_retries; and when all
\* max_retries + 1 replies were of these kinds the call has raised.
C34_BoundedRetries ==
    /\ Len(responses) <= max_retries + 1
    /\ Len(responses) = max_retries + 1 => outcome # Running
    /\ attempt <= max_retries
    /\ outcome = Running =>
           attempt = Cardinality({i \in 1 .. Len(responses) : IsRetryable(responses[i])})
    /\ (Len(responses) = max_retries + 1 /\ OnlyRetryable(max_retries + 1)) =>
           outcome.kind = "raised"

\* max_retries = 3: transport failures and 429s in turn, three retries in
\* all, and the fourth reply ends the call with an error.
C34_Witness ==
    /\ max_retries = 3
    /\ responses = <<TransportFailure, Response(429), TransportFailure, Response(429)>>
    /\ attempt = 3
    /\ outcome = GitLabClientError("HTTP", 429)

\* ---------------------------------------- properties of set on a present key

\* C35: right after a set_rule_file, made at time `now` with TTL ttl on a key
\* that the cache already held (expired or not), the key is present with the
\* new content, and a get of it at any later time t gives the content while
\* t <= now + ttl and None after, wherever the earlier entry's TTL stood.
C35_SetResetsTtl ==
    last.op = "set_rule_file" =>
        LET k == make_repository_key(last.repository, last.file_path) IN
        k \in DOMAIN last.before =>
            /\ cache_get(store, k, now) = Some(last.content)
            /\ \A t \in now .. MaxTime + DefaultTtl + 1 :
                   cache_get(store, k, t) =
                       IF t > now + written[k].ttl THEN Nothing ELSE Some(last.content)

\* A set on a key whose earlier entry, set at an earlier time, had not expired.
C35_Witness ==
    /\ last.op = "set_rule_file"
    /\ LET k == make_repository_key(last.repository, last.file_path) IN
       /\ k \in DOMAIN last.before
       /\ last.before[k].created_at < now
       /\ ~is_expired(last.before[k], now)
       /\ store[k].created_at = now

\* A set on a key whose earlier entry had expired and was still in the store.
C35_WitnessExpired ==
    /\ last.op = "set_rule_file"
    /\ LET k == make_repository_key(last.repository, last.file_path) IN
       /\ k \in DOMAIN last.before
       /\ is_expired(last.before[k], now)
       /\ cache_get(store, k, now) = Some(last.content)

\* ------------------------------------- properties of cancelling the sweep task

\* C36: the delivery of a cancellation leaves the task finished, at whichever
\* await it was suspended; and a stop() that awaits the sweep task goes on to
\* return.
C36_CancelledSweepTerminates ==
    /\ [][\A i \in 1 .. MaxStarts :
              (i <= Len(tasks) /\ tasks[i].cancelling /\ ~tasks'[i].cancelling) =>
                  Finished(tasks'[i])]_vars
    /\ (stop_pc = "awaiting") ~> (stop_pc = "returned")

\* stop() has returned after awaiting a task that had been round the loop
\* through a failed sweep and its backoff, and that the cancellation ended
\* inside the try block.
C36_Witness ==
    /\ stop_pc = "returned"
    /\ cleanup_task # NoTask
    /\ cleanup_task \in resumed
    /\ tasks[cleanup_task].pc = "done"

\* ------------------------------- properties of invalidate_repository: scope

\* C38: after invalidate_repository(repository), every rule file of a
\* different (url, branch) reads from the cache as it did before the call.
C38_InvalidateSparesOtherRepositories ==
    last.op = "invalidate_repository" =>
        \A file \in Files :
            <<file[1].url, file[1].branch>> #
                    <<last.repository.url, last.repository.branch>> =>
                LET k == make_repository_key(file[1], file[2]) IN
                cache_get(store, k, now) = cache_get(last.before, k, now)

\* ------------- properties of invalidate_repository and the ToolManager's keys

\* A key that ToolManager wrote: "tools:..." or "resource:...".
IsToolManagerKey(k) ==
    \/ StartsWith(k, <<"t", "o", "o", "l", "s", ":">>)
    \/ StartsWith(k, <<"r", "e", "s", "o", "u", "r", "c", "e", ":">>)

\* C39: invalidate_repository leaves every "tools:" and "resource:" entry as
\* it was; and a get_resource_content made right after the invalidation of
\* its repository, for a URI whose specification and content the cache held
\* unexpired before the invalidation, sends no request upstream and, when it
\* returns, returns the cached content.
C39_InvalidateLeavesToolManagerEntries ==
    /\ last.op = "invalidate_repository" =>
           \A k \in DOMAIN last.before :
               IsToolManagerKey(k) => (k \in DOMAIN store /\ store[k] = last.before[k])
    /\ \A r \in UriRepositories, b \in UriBranches, p \in UriPaths :
           LET tools_key == tools_cache_key(GitLabRepository(r, b))
               resource_key == resource_cache_key(r, b, p)
           IN
           (/\ last.op = "get_resource_content"
            /\ "invalidated" \in DOMAIN last
            /\ last.resource_uri = ResourceUri(r, b, p)
            /\ last.invalidated = GitLabRepository(r, b)
            /\ cache_get(last.held, tools_key, now) # Nothing
            /\ cache_get(last.held, resource_key, now) # Nothing) =>
               /\ last.did.requests = <<>>
               /\ last.did.result.raised = "none" =>
                      last.did.result.value = last.held[resource_key].value

\* ------------------------------ properties of the two decoders of a URI

\* C40: get_resource_content and parse_uri both reject a string, or both cut
\* it into the same (repository, branch, file_path).
C40_DecodersAgree ==
    called.op = "decode" =>
        IF called.parsed.raised # "none"
        THEN called.decoded.raised # "none"
        ELSE /\ called.decoded.raised = "none"
             /\ called.decoded.value = called.parsed.value

====
